---- MODULE Spec2Model ----
(***************************************************************************)
(* A model of the synthetic mobile-typo corpus generator of typing-app:    *)
(*   src/data/english_variants.py  - spelling tables, variant registry,    *)
(*                                   spelling conversion, protected words  *)
(*   src/data/generate_typos.py    - protection classifier, typo engine,   *)
(*                                   dataset builder                       *)
(*                                                                         *)
(* Python strings are TLA+ strings: TLC evaluates Len, \o, SubSeq, Head    *)
(* and Tail on them, so a string is handled as the sequence of its         *)
(* one-character strings.  Probabilities are integers in hundredths        *)
(* (0.03 is 3); a value of random.random() is an integer u in 0..99        *)
(* standing for u/100.                                                     *)
(***************************************************************************)
EXTENDS Integers, Sequences, FiniteSets, TLC

VARIABLES
    \* get_spelling_for_variant(word, variant)
    gs_word, gs_variant, gs_result, gs_pc,
    \* should_protect_word(word, variant) and the registry lookups
    sp_word, sp_variant, sp_include_regional, sp_include_short,
    sp_result, sp_sentences, sp_protected, sp_spelling, sp_pc,
    \* find_protected_spans(text)
    fs_text, fs_protected_spans, fs_merged, fs_pc,
    \* corrupt_word_mobile(word)
    cw_word, cw_result, cw_path, cw_pc,
    \* corrupt_text_mobile(text, error_rate, variant)
    ct_text, ct_error_rate, ct_variant, ct_words, ct_i, ct_result_words,
    ct_result, ct_log, ct_pc,
    \* generate_dataset(...) and the process-global random generator
    gd_num_samples, gd_error_rate, gd_variant, gd_clean_sample_ratio,
    gd_variable_error_rate, gd_variants_per_sample,
    gd_all_sentences, gd_dataset, gd_i, gd_clean, gd_generated_variants, gd_v,
    gd_sample_error_rate, gd_corrupted, gd_attempts, gd_calls, gd_emitted,
    gd_seed, gd_rng, gd_pc,
    \* convert_sentence_spelling(sentence, variant)
    cs_sentence, cs_variant, cs_result, cs_pc

gsVars == <<gs_word, gs_variant, gs_result, gs_pc>>
spVars == <<sp_word, sp_variant, sp_include_regional, sp_include_short,
            sp_result, sp_sentences, sp_protected, sp_spelling, sp_pc>>
fsVars == <<fs_text, fs_protected_spans, fs_merged, fs_pc>>
cwVars == <<cw_word, cw_result, cw_path, cw_pc>>
ctVars == <<ct_text, ct_error_rate, ct_variant, ct_words, ct_i, ct_result_words,
            ct_result, ct_log, ct_pc>>
gdVars == <<gd_num_samples, gd_error_rate, gd_variant, gd_clean_sample_ratio,
            gd_variable_error_rate, gd_variants_per_sample,
            gd_all_sentences, gd_dataset, gd_i, gd_clean, gd_generated_variants, gd_v,
            gd_sample_error_rate, gd_corrupted, gd_attempts, gd_calls, gd_emitted,
            gd_seed, gd_rng, gd_pc>>
csVars == <<cs_sentence, cs_variant, cs_result, cs_pc>>
vars == <<gsVars, spVars, fsVars, cwVars, ctVars, gdVars, csVars>>

(***************************************************************************)
(* Python str methods, on the characters that occur in the tables.         *)
(***************************************************************************)
ASCII_LOWERCASE == "abcdefghijklmnopqrstuvwxyz"
LOWER_LETTERS == ASCII_LOWERCASE \o "àá"
UPPER_LETTERS == "ABCDEFGHIJKLMNOPQRSTUVWXYZÀÁ"
DIGITS == "0123456789"

Chars(s) == {SubSeq(s, i, i) : i \in 1..Len(s)}
CharAt(s, i) == SubSeq(s, i + 1, i + 1)   \* s[i], 0-based as in Python
Range(seq) == {seq[i] : i \in 1..Len(seq)}
Max(a, b) == IF a >= b THEN a ELSE b
Min(a, b) == IF a <= b THEN a ELSE b

LowerSet == Chars(LOWER_LETTERS)
UpperSet == Chars(UPPER_LETTERS)
DigitSet == Chars(DIGITS)

ToLower ==
    [c \in UpperSet |->
        LET i == CHOOSE j \in 1..Len(UPPER_LETTERS) : SubSeq(UPPER_LETTERS, j, j) = c
        IN SubSeq(LOWER_LETTERS, i, i)]
ToUpper ==
    [c \in LowerSet |->
        LET i == CHOOSE j \in 1..Len(LOWER_LETTERS) : SubSeq(LOWER_LETTERS, j, j) = c
        IN SubSeq(UPPER_LETTERS, i, i)]

\* c.isupper(), c.islower(), c.isalnum(), c.isdigit() for a single character
isupper_c(c) == c \in UpperSet
islower_c(c) == c \in LowerSet
isalnum_c(c) == c \in LowerSet \cup UpperSet \cup DigitSet
lower_c(c) == IF c \in UpperSet THEN ToLower[c] ELSE c
upper_c(c) == IF c \in LowerSet THEN ToUpper[c] ELSE c
swapcase_c(c) == IF c \in UpperSet THEN ToLower[c] ELSE IF c \in LowerSet THEN ToUpper[c] ELSE c

\* s.lower(), s.upper(): character by character (the string is halved at each
\* step, which keeps the evaluation shallow on long sentences)
lower[s \in STRING] ==
    IF Len(s) = 0 THEN ""
    ELSE IF Len(s) = 1 THEN lower_c(s)
    ELSE lower[SubSeq(s, 1, Len(s) \div 2)] \o lower[SubSeq(s, Len(s) \div 2 + 1, Len(s))]
upper[s \in STRING] ==
    IF Len(s) = 0 THEN ""
    ELSE IF Len(s) = 1 THEN upper_c(s)
    ELSE upper[SubSeq(s, 1, Len(s) \div 2)] \o upper[SubSeq(s, Len(s) \div 2 + 1, Len(s))]

\* s.isupper(): at least one cased character and no lower-case one
isupper(s) == /\ \E i \in 1..Len(s) : SubSeq(s, i, i) \in UpperSet
              /\ \A i \in 1..Len(s) : SubSeq(s, i, i) \notin LowerSet
\* s.isdigit(): non-empty and only digits
isdigit(s) == /\ s # ""
              /\ \A i \in 1..Len(s) : SubSeq(s, i, i) \in DigitSet
\* s.capitalize(): first character upper-cased, the rest lower-cased
capitalize(s) == IF s = "" THEN "" ELSE upper_c(Head(s)) \o lower[Tail(s)]

\* s.strip(chars): drop the leading and trailing characters that are in chars
strip(s, chars) ==
    LET keep == {i \in 1..Len(s) : SubSeq(s, i, i) \notin chars}
    IN IF keep = {} THEN ""
       ELSE SubSeq(s, CHOOSE i \in keep : \A j \in keep : i <= j,
                      CHOOSE i \in keep : \A j \in keep : i >= j)

\* s.replace(old, new) for a one-character old
replace[s \in STRING, old \in STRING, new \in STRING] ==
    IF Len(s) = 0 THEN ""
    ELSE IF Len(s) = 1 THEN (IF s = old THEN new ELSE s)
    ELSE replace[SubSeq(s, 1, Len(s) \div 2), old, new]
         \o replace[SubSeq(s, Len(s) \div 2 + 1, Len(s)), old, new]

\* The n-th smallest element of a finite set of integers, as a sequence
Sorted(S) ==
    [n \in 1..Cardinality(S) |-> CHOOSE i \in S : Cardinality({j \in S : j <= i}) = n]

\* s.split(): the maximal runs of non-blank characters, in order
split(s) ==
    LET starts == {i \in 1..Len(s) :
                      /\ SubSeq(s, i, i) # " "
                      /\ (i = 1 \/ SubSeq(s, i - 1, i - 1) = " ")}
        stop(i) == CHOOSE j \in i..Len(s) :
                      /\ \A k \in i..j : SubSeq(s, k, k) # " "
                      /\ (j = Len(s) \/ SubSeq(s, j + 1, j + 1) = " ")
        order == Sorted(starts)
    IN [n \in 1..Len(order) |-> SubSeq(s, order[n], stop(order[n]))]

\* ' '.join(words)
join[words \in Seq(STRING)] ==
    IF Len(words) = 0 THEN ""
    ELSE IF Len(words) = 1 THEN words[1]
    ELSE join[SubSeq(words, 1, Len(words) \div 2)] \o " "
         \o join[SubSeq(words, Len(words) \div 2 + 1, Len(words))]

\* dict(pairs): a later pair with the same key replaces the earlier value
dict(pairs) ==
    [k \in {pairs[i][1] : i \in 1..Len(pairs)} |->
        LET last == CHOOSE i \in 1..Len(pairs) :
                        /\ pairs[i][1] = k
                        /\ \A j \in (i + 1)..Len(pairs) : pairs[j][1] # k
        IN pairs[last][2]]

\* d.items(): the keys in the order of their first insertion, each with its value
items(pairs) ==
    LET d == dict(pairs)
        order == Sorted({i \in 1..Len(pairs) :
                            \A j \in 1..(i - 1) : pairs[j][1] # pairs[i][1]})
    IN [n \in 1..Len(order) |-> <<pairs[order[n]][1], d[pairs[order[n]][1]]>>]

(***************************************************************************)
(* The static tables, literal by literal.                                  *)
(***************************************************************************)
SPELLING_US_TO_UK_LITERAL ==
  <<
    <<"color", "colour">>, <<"colors", "colours">>, <<"colored", "coloured">>,
    <<"coloring", "colouring">>, <<"favor", "favour">>, <<"favors", "favours">>,
    <<"favored", "favoured">>, <<"favorite", "favourite">>, <<"favorites", "favourites">>,
    <<"flavor", "flavour">>, <<"flavors", "flavours">>, <<"flavored", "flavoured">>,
    <<"harbor", "harbour">>, <<"harbors", "harbours">>, <<"honor", "honour">>,
    <<"honors", "honours">>, <<"honored", "honoured">>, <<"honoring", "honouring">>,
    <<"humor", "humour">>, <<"humors", "humours">>, <<"labor", "labour">>,
    <<"labors", "labours">>, <<"labored", "laboured">>, <<"laboring", "labouring">>,
    <<"neighbor", "neighbour">>, <<"neighbors", "neighbours">>,
    <<"neighboring", "neighbouring">>, <<"neighborhood", "neighbourhood">>,
    <<"rumor", "rumour">>, <<"rumors", "rumours">>, <<"savior", "saviour">>,
    <<"saviors", "saviours">>, <<"behavior", "behaviour">>, <<"behaviors", "behaviours">>,
    <<"endeavor", "endeavour">>, <<"endeavors", "endeavours">>, <<"center", "centre">>,
    <<"centers", "centres">>, <<"centered", "centred">>, <<"centering", "centring">>,
    <<"theater", "theatre">>, <<"theaters", "theatres">>, <<"meter", "metre">>,
    <<"meters", "metres">>, <<"liter", "litre">>, <<"liters", "litres">>, <<"fiber", "fibre">>,
    <<"fibers", "fibres">>, <<"caliber", "calibre">>, <<"somber", "sombre">>,
    <<"specter", "spectre">>, <<"scepter", "sceptre">>, <<"luster", "lustre">>,
    <<"meager", "meagre">>, <<"organize", "organise">>, <<"organizes", "organises">>,
    <<"organized", "organised">>, <<"organizing", "organising">>,
    <<"organization", "organisation">>, <<"organizations", "organisations">>,
    <<"recognize", "recognise">>, <<"recognizes", "recognises">>,
    <<"recognized", "recognised">>, <<"recognizing", "recognising">>, <<"realize", "realise">>,
    <<"realizes", "realises">>, <<"realized", "realised">>, <<"realizing", "realising">>,
    <<"apologize", "apologise">>, <<"apologizes", "apologises">>,
    <<"apologized", "apologised">>, <<"analyze", "analyse">>, <<"analyzes", "analyses">>,
    <<"analyzed", "analysed">>, <<"analyzing", "analysing">>, <<"paralyze", "paralyse">>,
    <<"paralyzed", "paralysed">>, <<"criticize", "criticise">>, <<"criticizes", "criticises">>,
    <<"criticized", "criticised">>, <<"customize", "customise">>,
    <<"customizes", "customises">>, <<"customized", "customised">>, <<"minimize", "minimise">>,
    <<"minimizes", "minimises">>, <<"minimized", "minimised">>, <<"maximize", "maximise">>,
    <<"maximizes", "maximises">>, <<"maximized", "maximised">>, <<"optimize", "optimise">>,
    <<"optimizes", "optimises">>, <<"optimized", "optimised">>, <<"prioritize", "prioritise">>,
    <<"prioritizes", "prioritises">>, <<"prioritized", "prioritised">>,
    <<"authorize", "authorise">>, <<"authorizes", "authorises">>,
    <<"authorized", "authorised">>, <<"summarize", "summarise">>,
    <<"summarizes", "summarises">>, <<"summarized", "summarised">>, <<"memorize", "memorise">>,
    <<"memorizes", "memorises">>, <<"memorized", "memorised">>, <<"categorize", "categorise">>,
    <<"categorizes", "categorises">>, <<"categorized", "categorised">>,
    <<"standardize", "standardise">>, <<"standardized", "standardised">>,
    <<"specialize", "specialise">>, <<"specializes", "specialises">>,
    <<"specialized", "specialised">>, <<"visualize", "visualise">>,
    <<"visualized", "visualised">>, <<"finalize", "finalise">>, <<"finalized", "finalised">>,
    <<"utilize", "utilise">>, <<"utilized", "utilised">>, <<"defense", "defence">>,
    <<"offense", "offence">>, <<"license", "licence">>, <<"practice", "practise">>,
    <<"pretense", "pretence">>, <<"catalog", "catalogue">>, <<"catalogs", "catalogues">>,
    <<"dialog", "dialogue">>, <<"dialogs", "dialogues">>, <<"analog", "analogue">>,
    <<"monolog", "monologue">>, <<"prolog", "prologue">>, <<"epilog", "epilogue">>,
    <<"judgment", "judgement">>, <<"judgments", "judgements">>,
    <<"acknowledgment", "acknowledgement">>, <<"acknowledgments", "acknowledgements">>,
    <<"traveled", "travelled">>, <<"traveling", "travelling">>, <<"traveler", "traveller">>,
    <<"travelers", "travellers">>, <<"canceled", "cancelled">>, <<"canceling", "cancelling">>,
    <<"labeled", "labelled">>, <<"labeling", "labelling">>, <<"modeled", "modelled">>,
    <<"modeling", "modelling">>, <<"counselor", "counsellor">>,
    <<"counselors", "counsellors">>, <<"jeweler", "jeweller">>, <<"jewelers", "jewellers">>,
    <<"fueled", "fuelled">>, <<"fueling", "fuelling">>, <<"leveled", "levelled">>,
    <<"leveling", "levelling">>, <<"signaled", "signalled">>, <<"signaling", "signalling">>,
    <<"dialed", "dialled">>, <<"dialing", "dialling">>, <<"marveled", "marvelled">>,
    <<"marveling", "marvelling">>, <<"marvelous", "marvellous">>, <<"gray", "grey">>,
    <<"grays", "greys">>, <<"program", "programme">>, <<"programs", "programmes">>,
    <<"check", "cheque">>, <<"checks", "cheques">>, <<"tire", "tyre">>, <<"tires", "tyres">>,
    <<"airplane", "aeroplane">>, <<"airplanes", "aeroplanes">>, <<"pajamas", "pyjamas">>,
    <<"mom", "mum">>, <<"moms", "mums">>, <<"draft", "draught">>, <<"drafts", "draughts">>,
    <<"plow", "plough">>, <<"plows", "ploughs">>, <<"plowed", "ploughed">>,
    <<"skeptic", "sceptic">>, <<"skeptics", "sceptics">>, <<"skeptical", "sceptical">>,
    <<"donut", "doughnut">>, <<"donuts", "doughnuts">>, <<"curb", "kerb">>,
    <<"curbs", "kerbs">>, <<"fulfill", "fulfil">>, <<"fulfills", "fulfils">>,
    <<"fulfilled", "fulfilled">>, <<"skillful", "skilful">>, <<"willful", "wilful">>,
    <<"enrollment", "enrolment">>, <<"enrollments", "enrolments">>,
    <<"installment", "instalment">>, <<"installments", "instalments">>,
    <<"fulfill", "fulfil">>, <<"aging", "ageing">>, <<"routing", "routeing">>,
    <<"artifact", "artefact">>, <<"artifacts", "artefacts">>, <<"medieval", "mediaeval">>,
    <<"maneuver", "manoeuvre">>, <<"maneuvers", "manoeuvres">>, <<"maneuvered", "manoeuvred">>,
    <<"pediatric", "paediatric">>, <<"pediatrics", "paediatrics">>,
    <<"orthopedic", "orthopaedic">>, <<"anesthetic", "anaesthetic">>,
    <<"anesthesia", "anaesthesia">>, <<"estrogen", "oestrogen">>, <<"fetus", "foetus">>,
    <<"diarrhea", "diarrhoea">>, <<"leukemia", "leukaemia">>, <<"edema", "oedema">>,
    <<"encyclopedia", "encyclopaedia">>, <<"archeology", "archaeology">>, <<"ax", "axe">>,
    <<"cozy", "cosy">>, <<"licorice", "liquorice">>, <<"molt", "moult">>,
    <<"mustache", "moustache">>, <<"omelet", "omelette">>, <<"smolder", "smoulder">>,
    <<"story", "storey">>, <<"stories", "storeys">>
  >>

VARIANT_CONFIG ==
  "US" :> [name |-> "American English", markets |-> <<"USA", "Canada">>, spelling |-> "US",
      protected |-> <<

      >>] @@
  "UK" :> [name |-> "British English", markets |-> <<"UK", "EU", "Malta">>, spelling |-> "UK",
      protected |-> <<
        "innit", "bloody", "blimey", "cheers", "mate", "rubbish", "dodgy", "gobsmacked",
        "chuffed"
      >>] @@
  "AU" :> [name |-> "Australian English", markets |-> <<"Australia">>, spelling |-> "UK",
      protected |-> <<
        "arvo", "servo", "bottle-o", "smoko", "brekkie", "barbie", "sunnies", "thongs", "mate",
        "reckon", "heaps", "keen", "no worries", "strewth", "crikey", "fair dinkum", "bogan",
        "drongo", "sheila", "bloke", "ripper", "stoked", "sicko", "maccas"
      >>] @@
  "NZ" :> [name |-> "New Zealand English", markets |-> <<"New Zealand">>, spelling |-> "UK",
      protected |-> <<
        "bro", "cuz", "sweet as", "choice", "chur", "yeah nah", "nah yeah", "mint", "mean",
        "hard out", "all good", "ka pai", "kia ora", "whanau", "tamariki", "tiki tour",
        "tramping", "jandals", "dairy", "bach"
      >>] @@
  "SG" :> [name |-> "Singapore English (Singlish)", markets |-> <<"Singapore">>, spelling |-> "UK",
      protected |-> <<
        "lah", "leh", "lor", "meh", "hor", "sia", "liao", "ah", "one", "already", "can",
        "cannot", "got", "never", "still got", "how come", "is it", "steady", "shiok", "sian",
        "blur", "kiasu", "kiasi", "paiseh", "bojio", "jialat", "alamak", "wah", "walao",
        "aiyo", "aiyah", "oi", "eh", "hah", "makan", "chope", "lepak", "kopi", "teh", "tabao",
        "dabao", "hawker", "kopitiam", "ang moh", "gahmen", "atas", "sua ku", "act blur",
        "kena", "arrow", "sabo", "wayang", "on", "off", "ownself", "liddat", "likdat", "machiam"
      >>] @@
  "MY" :> [name |-> "Malaysian English (Manglish)", markets |-> <<"Malaysia">>, spelling |-> "UK",
      protected |-> <<
        "lah", "mah", "lor", "leh", "meh", "one", "got", "already", "can", "cannot", "wei",
        "woi", "eh", "aiyo", "aiyoh", "walao", "yalor", "haiya", "aiya", "boss", "macha",
        "dei", "macam", "cincai", "gostan", "jalan", "makan", "mamak", "tapau", "yum cha",
        "kaw kaw", "terror", "geng", "syok", "action", "outstation", "lepak", "yamcha",
        "potong", "cabut", "kantoi"
      >>] @@
  "IN" :> [name |-> "Indian English", markets |-> <<"India", "Nepal", "Bangladesh">>, spelling |-> "UK",
      protected |-> <<
        "yaar", "yar", "na", "no", "hai", "haan", "ji", "arey", "arre", "arrey", "accha",
        "achha", "theek", "thik", "bas", "chalo", "kya", "bhai", "didi", "uncle", "aunty",
        "auntie", "beta", "beti", "babu", "sahib", "ji", "prepone", "revert", "do the needful",
        "kindly", "intimate", "passed out", "mugging", "timepass", "eve teasing", "godown",
        "lakh", "crore", "dabba", "dabbawala", "pukka", "jugaad", "bindaas", "fundoo",
        "bakwas", "timepass", "tension", "funda", "gyaan", "desi", "firangi", "gora"
      >>] @@
  "PH" :> [name |-> "Philippine English", markets |-> <<"Philippines">>, spelling |-> "US",
      protected |-> <<
        "po", "opo", "ho", "naman", "ba", "daw", "raw", "pala", "kasi", "talaga", "ano",
        "di ba", "diba", "ganun", "ganon", "edi", "sige", "ge", "hala", "ay", "nako", "sus",
        "hay", "aba", "aray", "lodi", "petmalu", "werpa", "for a while", "open the light",
        "close the light", "CR", "comfort room", "ref", "aircon", "brownout", "blow out",
        "despedida", "merienda", "balikbayan", "pasalubong", "utang na loob", "kilig", "gigil",
        "basta"
      >>] @@
  "NG" :> [name |-> "Nigerian English", markets |-> <<"Nigeria", "Ghana", "West Africa">>, spelling |-> "UK",
      protected |-> <<
        "abi", "sha", "shaa", "sef", "o", "oh", "na", "dey", "wey", "wetin", "wahala", "gist",
        "gisting", "yawa", "chop", "dash", "kolo", "craze", "japa", "sabi", "no wahala",
        "e go be", "how far", "how body", "bros", "oga", "madam", "abeg", "biko", "jare",
        "ehen", "ehn", "shey", "oya", "ginger", "pepper", "strong thing", "enter", "drop",
        "pick", "flash", "okada", "danfo", "keke", "mama put", "buka", "suya", "small chops",
        "ashewo", "packaging", "shakara", "flex", "slay", "on point", "gbas gbos"
      >>] @@
  "ZA" :> [name |-> "South African English", markets |-> <<"South Africa", "Namibia", "Zimbabwe">>, spelling |-> "UK",
      protected |-> <<
        "lekker", "kiff", "kif", "sharp", "shap", "eish", "eina", "ag", "shame", "ja", "nee",
        "dankie", "baie", "braai", "bru", "boet", "china", "oke", "dof", "dwaal", "gatvol",
        "now now", "just now", "robot", "circle", "bakkie", "tackies", "takkies", "slops",
        "howzit", "yebo", "aikona", "ubuntu", "sangoma", "toyi-toyi", "vuvuzela", "braai",
        "potjie", "bunny chow", "boerewors", "biltong", "rooibos", "moerse", "lank"
      >>] @@
  "HK" :> [name |-> "Hong Kong English", markets |-> <<"Hong Kong", "Macau">>, spelling |-> "UK",
      protected |-> <<
        "lah", "ah", "la", "lor", "leh", "geh", "meh", "wor", "ga", "ge", "add oil",
        "fighting", "aiya", "aiyo", "wah", "haiya", "siu mai", "char siu", "dim sum",
        "yum cha", "dai pai dong", "wet market", "MTR", "octopus", "minibus", "ding ding",
        "helper", "domestic helper", "expat", "gweilo", "ABC", "BBC", "can", "cannot", "got",
        "have", "play", "do", "make"
      >>] @@
  "IE" :> [name |-> "Irish English (Hiberno)", markets |-> <<"Ireland">>, spelling |-> "UK",
      protected |-> <<
        "grand", "craic", "crack", "fierce", "deadly", "gas", "sound", "class", "yer man",
        "yer one", "yer wan", "himself", "herself", "bold", "press", "messages", "runners",
        "jumper", "minerals", "banjaxed", "knackered", "eejit", "gobshite", "feck",
        "acting the maggot", "giving out", "what way", "amnt", "tis", "twas", "yoke", "yera",
        "ara", "sure look", "slainte", "cead mile failte", "go raibh maith agat", "ta", "nil"
      >>] @@
  "SC" :> [name |-> "Scottish English", markets |-> <<"Scotland">>, spelling |-> "UK",
      protected |-> <<
        "aye", "nae", "wee", "braw", "bonnie", "ken", "kent", "dinna", "didnae", "cannae",
        "willnae", "wouldnae", "shouldnae", "havnae", "isnae", "wasnae", "och", "hoots",
        "wheesht", "blether", "haver", "scunner", "crabbit", "dreich", "glaikit", "numpty",
        "bampot", "radge", "bairn", "lad", "lass", "loch", "ben", "brae", "kirk", "croft",
        "burn", "glen", "strath", "tattie", "neep", "haggis", "hogmanay", "ceilidh", "slàinte"
      >>]

VARIANT_CODES ==
  <<"US", "UK", "AU", "NZ", "SG", "MY", "IN", "PH", "NG", "ZA", "HK", "IE", "SC">>

EV_SAMPLE_SENTENCES ==
  <<
    "I'll meet you at the center of town.", "What's your favorite color?",
    "The theater is just around the corner.", "Can you organize the meeting for tomorrow?",
    "I realized I left my phone at home.", "Let me check my schedule and get back to you.",
    "The neighbor's dog has been barking all night.", "I need to apologize for being late.",
    "She has a great sense of humor.", "The program starts at eight o'clock.",
    "We need to finalize the report by Friday.", "Can you summarize the main points?",
    "The team analyzed the data carefully.", "I'll authorize the payment today.",
    "Let's prioritize the urgent tasks.", "The organization is planning a restructure.",
    "We should optimize the workflow.", "I recognize that this is challenging.",
    "The defense team prepared their case.", "Please catalog all the items.",
    "I traveled to London last summer.", "The airplane landed on time.",
    "Check the tire pressure before driving.", "The draft is coming through the window.",
    "She wore her favorite pajamas.", "The jewelry store is closed today.",
    "I need to refuel the car.", "The counselor gave good advice.",
    "It was a gray and cloudy day.", "Mom is coming to visit next week.",
    "That donut looks delicious.", "I'm skeptical about the results.",
    "The movie was marvelous.", "He has a thick mustache.", "I made an omelet for breakfast.",
    "The building has ten stories.", "Let me fulfill your request.",
    "She's very skillful at her job.", "The artifact was found in Egypt.",
    "They maneuvered through traffic."
  >>

REGIONAL_SENTENCES ==
  "SG" :> <<
      "This one very shiok lah!", "Wah, the queue so long sia.",
      "Can help me chope this seat ah?", "Later go makan, you want?", "Aiyo, I so blur today.",
      "Don't be so kiasu lah.", "Why you never tell me earlier leh?",
      "This place damn atas one.", "Aiyah, kena arrow again.", "Wa lao eh, so jialat.",
      "You eat already or not?", "The kopitiam downstairs got good kopi.",
      "I paiseh to ask him leh.", "This one macam not right lor.", "Ok lah, I do it myself.",
      "Today very sian, nothing to do.", "You bojio me go!", "Steady lah bro!",
      "How come liddat one?", "Is it? I didn't know sia."
    >> @@
  "MY" :> <<
      "Wah, this food damn terror lah!", "Boss, one teh tarik please.",
      "Let's go mamak later lah.", "Aiyo, so mahal one this.",
      "Can or not? I need answer now.", "Wei, you going where ah?",
      "Haiya, traffic jam again.", "This one cincai do can already lah.",
      "Let's lepak at my place.", "Don't action so much lah.", "I outstation next week.",
      "Gostan a bit, you blocking me.", "Syok sendiri only you.", "Why you so geng one?",
      "Yalor, I also think so.", "Jom yamcha tonight!", "Faster lah, we late already.",
      "This curry kaw kaw one.", "He kantoi already, everyone knows.", "Potong stim lah you."
    >> @@
  "IN" :> <<
      "Please do the needful and revert back.", "I will intimate you once done.",
      "The meeting got preponed to 2 PM.", "Arey yaar, what happened?",
      "Accha, I understand now.", "One second, I am coming only.", "What is your good name?",
      "Kindly adjust a little bit.", "I passed out from IIT in 2015.",
      "He's doing timepass only.", "This is very tension giving.",
      "Let me give you some gyaan on this.", "Chalo, let's go now.", "Bas, that's enough.",
      "Theek hai, no problem.", "Uncle, can you help me?", "This is very fundoo idea yaar.",
      "He's a total bakwas person.", "I am having some doubts.",
      "My cousin brother is coming today."
    >> @@
  "PH" :> <<
      "Wait lang po, for a while.", "Sige, I'll do it na.", "Can you open the light please?",
      "The CR is over there.", "Ay nako, I forgot again!", "It's so traffic outside.",
      "I'll get my ref and bring some food.", "There's a brownout in our area.",
      "We had a blow out for her birthday.", "Did you bring pasalubong?",
      "I'm so kilig right now!", "This makes me gigil!", "Basta, just do it.",
      "That's so petmalu, lodi!", "Talaga? I didn't know that.", "Kasi, I was busy eh.",
      "Edi wow, good for you.", "Hala, we're late!", "Close the aircon, it's cold.",
      "I have a despedida party next week."
    >> @@
  "NG" :> <<
      "How far, my guy?", "No wahala, we go sort am.", "Abeg, help me with this.",
      "The thing dey pepper me sha.", "Oya, make we go!", "Wetin you dey do?",
      "E go be, no worry.", "This gist is too much!", "Bros, I dey come.",
      "That one na wahala o.", "Shey you understand?", "Na so the thing be.",
      "I wan chop something.", "Make we go mama put.", "This suya is on point!",
      "Ehen, I remember now.", "Oga, please help me.", "You sabi this thing well well.",
      "Dem dey ginger me.", "I don japa already."
    >> @@
  "ZA" :> <<
      "Howzit my china!", "That braai was lekker!", "Eish, what a mission.",
      "I'll do it now now.", "Just now I was there.", "Sharp sharp, see you later.",
      "This place is moerse nice.", "Stop at the robot please.",
      "I'm gatvol with this traffic.", "Shame, that's so sad.", "Ja nee, it's complicated.",
      "The biltong here is kiff.", "Let me get my takkies.", "I came with my bakkie.",
      "This boerewors is baie lekker!", "Ag man, don't stress.", "That oke is a bit dof.",
      "I'm in a dwaal today.", "Yebo, I agree with you.", "We need more ubuntu here."
    >> @@
  "HK" :> <<
      "Add oil! You can do it!", "Let's go yum cha tomorrow.", "Take the MTR, it's faster.",
      "The wet market closes early.", "Aiya, I forgot my octopus card!",
      "The ding ding is very slow.", "My helper is on leave today.",
      "This char siu is amazing lah!", "Wah, so expensive ah!", "Can can, no problem.",
      "Fighting! Good luck!", "Let's eat at the dai pai dong.", "The dim sum here is good ge.",
      "I'm an ABC, born in America.", "That gweilo speaks Cantonese!",
      "The minibus is faster lor.", "Got time or not?", "This one very nice wor.",
      "Haiya, so troublesome.", "The siu mai here is the best!"
    >> @@
  "IE" :> <<
      "Ah sure, it'll be grand.", "The craic was mighty last night!",
      "That's pure gas altogether.", "Yer man over there said so.",
      "I'm absolutely knackered.", "Stop acting the maggot!",
      "She's always giving out about something.", "What way are you going?",
      "That's a deadly idea!", "The young fella is being bold.", "I need to get the messages.",
      "Put on your runners, we're late.", "Get us some minerals from the shop.",
      "The car is totally banjaxed.", "That yoke over there is broken.",
      "Yera, don't worry about it.", "Sure look, it is what it is.",
      "Your one from down the road.", "Tis a fierce cold day.", "Sláinte! Good health to you!"
    >> @@
  "SC" :> <<
      "Aye, I ken what you mean.", "That's a braw wee idea!", "Och, dinnae worry about it.",
      "The bairn is sleeping upstairs.", "She's a bonnie lass.", "I cannae do that right now.",
      "Wheesht! Be quiet!", "Stop your blethering!", "That's pure brilliant, pal!",
      "The weather's awfy dreich today.", "He's a right numpty.",
      "Are you coming to the ceilidh?", "Let's go up the ben.",
      "The burn is running high today.", "I'm fair scunnered with this.",
      "She's in a crabbit mood.", "That's a glaikit thing to say.", "Happy Hogmanay everyone!",
      "The kirk is just up the brae.", "I'll have some tatties and neeps."
    >> @@
  "AU" :> <<
      "G'day mate, how's it going?", "No worries, she'll be right!",
      "That's fair dinkum, mate.", "Let's have a barbie this arvo.",
      "I'm heading to the servo.", "Grab some snags for the barbie.",
      "Strewth, that was close!", "He's a bit of a drongo.", "That sheila is really nice.",
      "This is heaps good!", "I reckon we should go.", "I'm absolutely stoked!",
      "Let's go to Maccas.", "Crikey, look at that!", "Put on your sunnies, it's bright.",
      "I left my thongs at the beach.", "That bloke is a ripper!", "Time for smoko.",
      "Let's grab a bottle-o run.", "I'm keen as mustard!"
    >> @@
  "NZ" :> <<
      "Sweet as, bro!", "Chur, thanks for that.", "That's pretty choice, aye.",
      "Yeah nah, I'm not sure.", "Nah yeah, let's do it!", "That feed was mean as!",
      "All good, no drama.", "Hard out, that was intense!", "Ka pai! Well done!",
      "Kia ora, welcome everyone!", "We're going tramping this weekend.",
      "Grab your jandals, we're going to the beach.", "Let's go to the dairy for some milk.",
      "We're staying at the bach.", "That's a mint car, bro!",
      "Whanau is coming over for dinner.", "The tamariki are playing outside.",
      "Let's do a tiki tour around town.", "Choice bro, see you later.",
      "That's pretty mean, cuz!"
    >> @@
  "UK" :> <<
      "Cheers mate, appreciate it!", "That's absolutely brilliant!",
      "Blimey, that was unexpected!", "Don't talk rubbish.", "That seems a bit dodgy to me.",
      "I'm gobsmacked by the news!", "I'm well chuffed with the result.", "Fancy a cuppa?",
      "That's proper good, innit?", "I'm knackered, need some sleep.",
      "Let's pop to the shops.", "I'll ring you later.", "Queueing is a way of life here.",
      "The telly is on too loud.", "I'm going to the loo.", "That's a load of codswallop!",
      "I'm feeling a bit poorly today.", "Mind the gap please.", "Lovely weather for ducks!",
      "Sorted, we're all good now."
    >> @@
  "US" :> <<
      "What's up, how's it going?", "That's awesome, dude!", "I'm gonna grab some coffee.",
      "Let's hang out this weekend.", "That's totally cool with me.",
      "I'm good, thanks for asking.", "We should totally do that.",
      "No worries, it's all good.", "I'm super excited about this!",
      "Let me check my schedule real quick.", "I gotta run, catch you later!",
      "That's so sick, bro!", "We're grabbing some takeout.", "I'll shoot you a text later.",
      "That's lit, for real!", "I'm down for whatever.", "Let's bounce, it's getting late.",
      "I'm so done with this.", "That slaps, honestly.", "No cap, that was amazing."
    >>

SHORT_MESSAGES ==
  <<
    "ok", "okay", "k", "kk", "yep", "yup", "nope", "nah", "ya", "yeah", "yes", "no", "sure",
    "cool", "nice", "great", "thanks", "thx", "ty", "np", "yw", "please", "pls", "sorry",
    "sry", "hi", "hey", "hello", "bye", "later", "soon", "now", "wait", "omw", "otw", "brb",
    "brt", "ttyl", "gtg", "g2g", "lol", "lmao", "haha", "hehe", "idk", "idc", "imo", "imho",
    "tbh", "nvm", "jk", "ikr", "smh", "fyi", "btw", "asap", "omg", "wtf", "wth", "rn", "atm",
    "fr", "ngl", "ong", "bet", "facts", "true", "same", "mood", "vibes", "slay", "fire",
    "goat", "goated", "bussin", "cap", "no cap", "lowkey", "highkey", "sus", "based", "mid",
    "lit", "valid", "bet", "word", "say less", "less", "sounds good", "sounds great",
    "all good", "no problem", "no worries", "got it", "on my way", "be right there",
    "be there soon", "running late", "almost there", "see you soon", "see you later",
    "talk later", "call you later", "text me", "let me know", "keep me posted", "what's up",
    "how are you", "you good", "wanna hang", "wanna come", "you down", "i'm down",
    "count me in", "i'm in", "can't make it", "maybe later", "rain check", "next time",
    "my bad", "all good", "no rush", "take your time", "whenever you can", "when you're free",
    "good morning", "good night", "sleep well", "have fun", "good luck", "congrats",
    "happy birthday", "thank you so much", "appreciate it", "means a lot", "miss you",
    "love you", "thinking of you", "checking in", "just checking", "quick question", "one sec",
    "hold on", "coming", "leaving now", "here", "where are you", "you there", "anyone home",
    "hello?", "you up"
  >>

PRESERVED_ABBREVIATIONS ==
  {
    "u", "r", "ur", "y", "n", "k", "b", "pls", "plz", "thx", "thnx", "ty", "yw", "np", "sry",
    "bc", "cuz", "tho", "rn", "tmr", "tmrw", "tn", "ytd", "msg", "mins", "secs", "hrs", "wks",
    "omw", "otw", "brb", "brt", "ttyl", "gtg", "g2g", "lol", "lmao", "rofl", "idk", "idc",
    "imo", "imho", "tbh", "nvm", "jk", "ikr", "smh", "fyi", "btw", "asap", "omg", "wtf", "wth",
    "afk", "irl", "fomo", "yolo", "tmi", "dm", "pm", "hmu", "lmk", "wyd", "hbu", "ily",
    "ilysm", "bff", "bf", "gf", "gonna", "wanna", "gotta", "kinda", "sorta", "dunno", "lemme",
    "gimme", "gotcha", "whatcha", "coulda", "shoulda", "woulda", "oughta", "hafta", "outta",
    "tryna", "finna", "boutta", "imma", "fr", "ngl", "ong", "lowkey", "highkey", "sus",
    "bussin", "slay", "goated", "mid", "based", "valid", "bet", "cap", "nocap", "rizz", "simp",
    "stan", "vibe", "yeet", "sheesh", "bruh", "fam", "lit"
  }

MOBILE_ADJACENT_KEYS ==
  "q" :> <<"w", "a", "s">> @@
  "w" :> <<"q", "e", "a", "s", "d">> @@
  "e" :> <<"w", "r", "s", "d", "f">> @@
  "r" :> <<"e", "t", "d", "f", "g">> @@
  "t" :> <<"r", "y", "f", "g", "h">> @@
  "y" :> <<"t", "u", "g", "h", "j">> @@
  "u" :> <<"y", "i", "h", "j", "k">> @@
  "i" :> <<"u", "o", "j", "k", "l">> @@
  "o" :> <<"i", "p", "k", "l">> @@
  "p" :> <<"o", "l">> @@
  "a" :> <<"q", "w", "s", "z", "x">> @@
  "s" :> <<"q", "w", "e", "a", "d", "z", "x", "c">> @@
  "d" :> <<"w", "e", "r", "s", "f", "x", "c", "v">> @@
  "f" :> <<"e", "r", "t", "d", "g", "c", "v", "b">> @@
  "g" :> <<"r", "t", "y", "f", "h", "v", "b", "n">> @@
  "h" :> <<"t", "y", "u", "g", "j", "b", "n", "m">> @@
  "j" :> <<"y", "u", "i", "h", "k", "n", "m">> @@
  "k" :> <<"u", "i", "o", "j", "l", "m">> @@
  "l" :> <<"i", "o", "p", "k">> @@
  "z" :> <<"a", "s", "x">> @@
  "x" :> <<"a", "s", "d", "z", "c">> @@
  "c" :> <<"s", "d", "f", "x", "v">> @@
  "v" :> <<"d", "f", "g", "c", "b">> @@
  "b" :> <<"f", "g", "h", "v", "n">> @@
  "n" :> <<"g", "h", "j", "b", "m">> @@
  "m" :> <<"h", "j", "k", "n">>

ERROR_WEIGHTS ==
  <<<<"adjacent", 35>>,
    <<"omission", 20>>,
    <<"insertion", 15>>,
    <<"transposition", 15>>,
    <<"substitution", 5>>,
    <<"space_error", 5>>,
    <<"case_error", 5>>>>

THUMB_TYPING_ERRORS ==
  "the" :> <<"thr", "tue", "rhe", "tge", "yhe", "th", "te">> @@
  "and" :> <<"ans", "abd", "snd", "amd", "anf", "anx", "nd">> @@
  "that" :> <<"thar", "thst", "rhat", "yhat", "tgat", "thay">> @@
  "have" :> <<"habe", "hsve", "jave", "havee", "hve">> @@
  "for" :> <<"fir", "fot", "gor", "dor", "fpr", "fo">> @@
  "are" :> <<"ate", "arr", "arf", "sre", "ae", "arre">> @@
  "but" :> <<"bur", "vut", "bir", "nit", "byt", "bt">> @@
  "not" :> <<"nit", "nor", "noy", "mot", "nof", "nt">> @@
  "you" :> <<"yiu", "tou", "yoy", "ypu", "uou", "yo">> @@
  "all" :> <<"sll", "akk", "al", "alll", "alk">> @@
  "can" :> <<"csn", "cab", "van", "xan", "cann", "cn">> @@
  "had" :> <<"hsd", "jad", "haf", "hax", "hadd">> @@
  "her" :> <<"hee", "het", "jer", "hrr", "ger">> @@
  "was" :> <<"wss", "qas", "wad", "eaw", "wa", "wass">> @@
  "one" :> <<"onr", "obe", "ine", "ond", "on", "onee">> @@
  "our" :> <<"oir", "oyr", "pur", "out", "ou">> @@
  "out" :> <<"oit", "put", "oyt", "our", "ot", "outt">> @@
  "day" :> <<"dat", "dau", "fay", "dsy", "dy">> @@
  "get" :> <<"gwt", "het", "ger", "grt", "gt", "gett">> @@
  "has" :> <<"hss", "jas", "hsd", "gas", "hs">> @@
  "him" :> <<"hom", "hin", "jim", "gim", "hum">> @@
  "his" :> <<"hos", "hia", "jis", "hiss", "hs">> @@
  "how" :> <<"hiw", "jow", "hoe", "gow", "hw">> @@
  "its" :> <<"ita", "irs", "ots", "itss", "ts">> @@
  "may" :> <<"mat", "nay", "msy", "mau", "my">> @@
  "new" :> <<"nee", "mew", "nrw", "bew", "nw">> @@
  "now" :> <<"niw", "mow", "noe", "bow", "nw">> @@
  "say" :> <<"sat", "sau", "ssy", "aay", "sy">> @@
  "two" :> <<"teo", "twi", "rwo", "tw", "twoo">> @@
  "way" :> <<"wau", "wsy", "eay", "qay", "wy">> @@
  "who" :> <<"whi", "eho", "qho", "wgo", "wh">> @@
  "did" :> <<"fid", "dud", "didd", "dd", "sid">> @@
  "she" :> <<"shr", "ahe", "dhe", "shee", "sh">> @@
  "been" :> <<"bern", "veen", "bren", "ben", "beenn">> @@
  "from" :> <<"frim", "fron", "feom", "grom", "frm">> @@
  "into" :> <<"inti", "inro", "intoo", "unto", "nto">> @@
  "just" :> <<"jusr", "kust", "jsut", "jist", "jst">> @@
  "like" :> <<"lile", "likr", "luke", "lik", "loke">> @@
  "make" :> <<"makr", "maje", "nake", "mke", "msle">> @@
  "more" :> <<"mire", "morr", "nore", "mote", "mre">> @@
  "only" :> <<"onlt", "inly", "omly", "oly", "onky">> @@
  "over" :> <<"iver", "ovet", "pver", "ovee", "ovr">> @@
  "such" :> <<"suxh", "sich", "suvh", "sch", "sucj">> @@
  "take" :> <<"tske", "takr", "rake", "taje", "tke">> @@
  "than" :> <<"tham", "tjan", "rhan", "thn", "thsn">> @@
  "them" :> <<"thrm", "rhem", "tjem", "thm", "tgem">> @@
  "then" :> <<"tjen", "rhen", "thrn", "thn", "tgen">> @@
  "this" :> <<"thia", "thjs", "rhis", "thos", "ths">> @@
  "time" :> <<"tine", "timr", "rime", "tume", "tme">> @@
  "very" :> <<"vety", "veru", "bery", "vry", "verg">> @@
  "want" :> <<"wanr", "qant", "wamt", "wnt", "wabt">> @@
  "well" :> <<"wekk", "qell", "wrll", "wll", "welll">> @@
  "were" :> <<"wete", "qere", "wrer", "wre", "weee">> @@
  "what" :> <<"wjat", "qhat", "whst", "wht", "whay">> @@
  "when" :> <<"wjen", "qhen", "whrn", "whn", "wheb">> @@
  "will" :> <<"eill", "wikk", "qill", "wil", "willl">> @@
  "with" :> <<"woth", "wirh", "qith", "wth", "wiyh">> @@
  "word" :> <<"wird", "worf", "qord", "wrd", "worx">> @@
  "work" :> <<"wirk", "wotk", "qork", "wrk", "wprk">> @@
  "year" :> <<"yeat", "yesr", "uear", "yar", "yeae">> @@
  "your" :> <<"yoir", "ypur", "uour", "yor", "youe">> @@
  "about" :> <<"aboit", "sbout", "abour", "abt", "abput">> @@
  "after" :> <<"aftet", "sfter", "afrer", "aftr", "aftee">> @@
  "again" :> <<"agsin", "sgain", "agaun", "agin", "agaib">> @@
  "being" :> <<"beinf", "veing", "brung", "bing", "beibg">> @@
  "could" :> <<"coild", "ciuld", "cpuld", "cld", "coudl">> @@
  "first" :> <<"furst", "forst", "dirst", "frst", "firat">> @@
  "great" :> <<"grear", "gteat", "grwat", "grt", "greay">> @@
  "never" :> <<"neved", "mever", "nevee", "nvr", "nevwr">> @@
  "other" :> <<"othet", "orher", "pther", "othr", "othee">> @@
  "right" :> <<"righr", "roght", "rugjt", "rght", "righy">> @@
  "still" :> <<"stoll", "srill", "atill", "stll", "stikl">> @@
  "thank" :> <<"thabk", "tjank", "rhank", "thnk", "thsnk">> @@
  "their" :> <<"theur", "tjeir", "rheir", "thir", "theie">> @@
  "there" :> <<"thete", "tjere", "rhere", "thre", "theee">> @@
  "these" :> <<"thesw", "tjese", "rhese", "thse", "thesee">> @@
  "think" :> <<"thunk", "tjink", "rhink", "thnk", "thibl">> @@
  "those" :> <<"thise", "tjose", "rhose", "thse", "thosee">> @@
  "three" :> <<"thfee", "tjree", "rhree", "thre", "threee">> @@
  "today" :> <<"todat", "roday", "todau", "tday", "todsy">> @@
  "under" :> <<"unfer", "ubder", "inder", "undr", "undee">> @@
  "water" :> <<"wated", "qater", "watee", "watr", "watef">> @@
  "where" :> <<"whete", "qhere", "wjere", "whre", "wheee">> @@
  "which" :> <<"whuch", "qhich", "wjich", "whch", "whicj">> @@
  "while" :> <<"whike", "qhile", "wjile", "whle", "whilw">> @@
  "world" :> <<"wirld", "qorld", "wprld", "wrld", "worle">> @@
  "would" :> <<"woukd", "qould", "woyld", "wld", "woudl">> @@
  "write" :> <<"wriyr", "qrite", "wfite", "wrte", "writw">> @@
  "going" :> <<"goung", "giing", "goinf", "gng", "goibg">> @@
  "typing" :> <<"typong", "tyoing", "typinf", "typng", "typibg">> @@
  "office" :> <<"offixe", "iffice", "offuce", "offce", "officw">> @@
  "because" :> <<"becayse", "becauae", "vecause", "bcause", "becuase">> @@
  "people" :> <<"pwople", "oeople", "peopke", "ppl", "peoplee">> @@
  "should" :> <<"shoild", "ahould", "shpuld", "shld", "shoudl">> @@
  "through" :> <<"thrpugh", "tjrough", "throigh", "thru", "througj">> @@
  "hello" :> <<"jello", "helli", "hrllo", "hllo", "helllo">> @@
  "message" :> <<"messafe", "nessage", "messsgr", "msg", "mesaage">> @@
  "meeting" :> <<"mweting", "meering", "neetkng", "mtng", "meetibg">> @@
  "morning" :> <<"mornong", "norning", "mornibg", "mrng", "mornimg">> @@
  "thanks" :> <<"tjanks", "rhanks", "thsnks", "thx", "thankss">> @@
  "please" :> <<"pleaae", "olease", "plesse", "pls", "pleasee">> @@
  "sorry" :> <<"sorrt", "sirry", "sorru", "sry", "sorrry">> @@
  "really" :> <<"reall", "rwally", "reakky", "rly", "reallt">> @@
  "thing" :> <<"thong", "thinf", "rhing", "thng", "thibg">> @@
  "things" :> <<"thongs", "thinfs", "rhings", "thngs", "thibgs">> @@
  "something" :> <<"somethong", "somwthing", "somerhing", "smth", "somethimg">> @@
  "someone" :> <<"someobe", "soneone", "somrone", "smone", "someonee">> @@
  "anything" :> <<"anythong", "anytjing", "snything", "anythng", "anythimg">> @@
  "everything" :> <<"everythong", "everytjing", "evrrything", "evrythng", "everythimg">> @@
  "nothing" :> <<"nothong", "notjing", "borhing", "nthng", "nothimg">> @@
  "i" :> <<"u", "o", "k">> @@
  "a" :> <<"s", "q", "z">>

SPACEBAR_ERRORS ==
  <<<<"space_to_b", 20>>,
    <<"space_to_n", 20>>,
    <<"space_to_v", 10>>,
    <<"double_space", 20>>,
    <<"no_space", 30>>>>

PROTECTED_PROPER_NOUNS ==
  {
    "iphone", "ipad", "macbook", "airpods", "imac", "ios", "macos", "ipados", "android",
    "samsung", "galaxy", "pixel", "oneplus", "huawei", "xiaomi", "google", "gmail", "youtube",
    "chrome", "chromebook", "microsoft", "windows", "xbox", "linkedin", "github", "vscode",
    "facebook", "instagram", "whatsapp", "messenger", "meta", "twitter", "tiktok", "snapchat",
    "discord", "slack", "zoom", "teams", "amazon", "alexa", "kindle", "aws", "netflix",
    "spotify", "uber", "lyft", "airbnb", "paypal", "venmo", "cashapp", "stripe", "shopify",
    "tesla", "spacex", "openai", "chatgpt", "claude", "anthropic", "outlook", "yahoo",
    "hotmail", "icloud", "dropbox", "onedrive", "notion", "figma", "canva", "photoshop",
    "illustrator", "premiere", "john", "jane", "mike", "david", "sarah", "emma", "james",
    "mary", "michael", "jennifer", "robert", "linda", "william", "elizabeth", "london",
    "paris", "tokyo", "singapore", "sydney", "melbourne", "new york", "los angeles",
    "san francisco", "seattle", "chicago", "mumbai", "delhi", "bangalore", "manila", "lagos",
    "johannesburg", "dublin", "edinburgh", "auckland", "wellington", "hong kong", "kuala lumpur"
  }

SAMPLE_SENTENCES ==
  <<
    "Hello, how are you? I am fine, thank you.", "Hey, what's up? How's it going?",
    "Good morning! Hope you have a great day.", "Hi there! Nice to hear from you.",
    "How are you doing today?", "Today I am going to the office to work on a new project.",
    "I have a meeting at three o'clock this afternoon.",
    "Can you send me the report by end of day?",
    "Let me know when you're free to discuss this.",
    "I'll follow up with you tomorrow morning.",
    "The deadline has been extended to next Friday.",
    "Please review the document and provide feedback.", "I'm working from home today.",
    "Can we reschedule our meeting to next week?", "I'll be out of office next Monday.",
    "I am typing this message hoping the AI can understand me.",
    "Just wanted to check in and see how you're doing.", "Are you free for lunch tomorrow?",
    "Let me know if you need anything.", "Thanks for your help with this!",
    "Sorry for the late reply, been super busy.", "That sounds great, count me in!",
    "No worries, take your time.", "I'll get back to you as soon as I can.",
    "Can you please call me when you get a chance?",
    "The quick brown fox jumps over the lazy dog.",
    "Can you please help me with this problem?",
    "I would like to schedule a meeting for tomorrow.",
    "Thank you for your help with this issue.", "I think we should discuss this further.",
    "Let me know if you have any questions.", "I will send you the document later today.",
    "I am looking forward to hearing from you soon.", "What time does the meeting start?",
    "Where should we meet for dinner?", "Did you get my last message?",
    "When will you be available?", "Can you explain this to me?",
    "Why did you change the plan?", "How long will this take?", "Who is coming to the party?",
    "I forgot my phone at home.", "The weather is beautiful today.",
    "I need to finish this by tonight.", "Everything is going according to plan.",
    "Something came up and I have to cancel.", "I really appreciate your patience.",
    "This is taking longer than expected.", "I completely understand your concern.",
    "Running late, be there in ten minutes.", "On my way now, see you soon.",
    "Just got your message, calling you back.", "Battery is dying, talk later.",
    "Bad signal here, might cut out.", "Can't talk right now, text me.",
    "Send me the address please.", "What's the wifi password?", "My phone is almost dead.",
    "I'll text you when I arrive.",
    "I wanted to follow up on our conversation from yesterday about the project timeline.",
    "Please let me know if there's anything else you need from me before the meeting.",
    "I apologize for any inconvenience this may have caused you.",
    "Looking forward to seeing everyone at the event this weekend.",
    "Just finished the presentation, ready for tomorrow's meeting."
  >>

(***************************************************************************)
(* english_variants.py: the spelling tables and the registry               *)
(***************************************************************************)
\* SPELLING_US_TO_UK = {...}
SPELLING_US_TO_UK == dict(SPELLING_US_TO_UK_LITERAL)

\* SPELLING_UK_TO_US = {v: k for k, v in SPELLING_US_TO_UK.items()}
SPELLING_UK_TO_US ==
    LET its == items(SPELLING_US_TO_UK_LITERAL)
    IN dict([i \in 1..Len(its) |-> <<its[i][2], its[i][1]>>])

\* ALL_PROTECTED_WORDS: word.lower() of every variant's 'protected' list
ALL_PROTECTED_WORDS ==
    UNION {{lower[w] : w \in Range(VARIANT_CONFIG[code].protected)} :
           code \in DOMAIN VARIANT_CONFIG}

\* A mutant of get_spelling_for_variant: the UK->US direction looks the word up
\* in the forward table, as if the reverse table had never been derived.
get_spelling_for_variant_forward_only(word, variant) ==
    LET word_lower == lower[word]
        is_capitalized == IF word # "" THEN isupper_c(Head(word)) ELSE FALSE
        is_upper == IF word # "" THEN isupper(word) ELSE FALSE
        result ==
            IF variant \in {"US", "UK", "AU"}
            THEN IF word_lower \in DOMAIN SPELLING_US_TO_UK
                 THEN SPELLING_US_TO_UK[word_lower] ELSE word_lower
            ELSE word_lower
    IN IF is_upper THEN upper[result]
       ELSE IF is_capitalized THEN capitalize(result)
       ELSE result

\* A mutant of get_spelling_for_variant: the fully-upper-case branch is lost, so
\* an upper-case word comes back capitalized only.
get_spelling_for_variant_no_upper(word, variant) ==
    LET word_lower == lower[word]
        is_capitalized == IF word # "" THEN isupper_c(Head(word)) ELSE FALSE
        result ==
            IF variant = "US"
            THEN IF word_lower \in DOMAIN SPELLING_UK_TO_US
                 THEN SPELLING_UK_TO_US[word_lower] ELSE word_lower
            ELSE IF variant \in {"UK", "AU"}
            THEN IF word_lower \in DOMAIN SPELLING_US_TO_UK
                 THEN SPELLING_US_TO_UK[word_lower] ELSE word_lower
            ELSE word_lower
    IN IF is_capitalized THEN capitalize(result) ELSE result

\* A mutant of get_spelling_for_variant: every target other than "US" is taken
\* for a UK-spelling target.
get_spelling_for_variant_else_uk(word, variant) ==
    LET word_lower == lower[word]
        is_capitalized == IF word # "" THEN isupper_c(Head(word)) ELSE FALSE
        is_upper == IF word # "" THEN isupper(word) ELSE FALSE
        result ==
            IF variant = "US"
            THEN IF word_lower \in DOMAIN SPELLING_UK_TO_US
                 THEN SPELLING_UK_TO_US[word_lower] ELSE word_lower
            ELSE IF word_lower \in DOMAIN SPELLING_US_TO_UK
                 THEN SPELLING_US_TO_UK[word_lower] ELSE word_lower
    IN IF is_upper THEN upper[result]
       ELSE IF is_capitalized THEN capitalize(result)
       ELSE result

\* A mutant of get_spelling_for_variant: the two capitalization branches are
\* exchanged.
get_spelling_for_variant_case_swapped(word, variant) ==
    LET word_lower == lower[word]
        is_capitalized == IF word # "" THEN isupper_c(Head(word)) ELSE FALSE
        is_upper == IF word # "" THEN isupper(word) ELSE FALSE
        result ==
            IF variant = "US"
            THEN IF word_lower \in DOMAIN SPELLING_UK_TO_US
                 THEN SPELLING_UK_TO_US[word_lower] ELSE word_lower
            ELSE IF variant \in {"UK", "AU"}
            THEN IF word_lower \in DOMAIN SPELLING_US_TO_UK
                 THEN SPELLING_US_TO_UK[word_lower] ELSE word_lower
            ELSE word_lower
    IN IF is_upper THEN capitalize(result)
       ELSE IF is_capitalized THEN upper[result]
       ELSE result

\* get_spelling_for_variant(word, variant)
get_spelling_for_variant(word, variant) ==
    LET word_lower == lower[word]
        is_capitalized == IF word # "" THEN isupper_c(Head(word)) ELSE FALSE
        is_upper == IF word # "" THEN isupper(word) ELSE FALSE
        result ==
            IF variant = "US"
            THEN IF word_lower \in DOMAIN SPELLING_UK_TO_US
                 THEN SPELLING_UK_TO_US[word_lower] ELSE word_lower
            ELSE IF variant \in {"UK", "AU"}
            THEN IF word_lower \in DOMAIN SPELLING_US_TO_UK
                 THEN SPELLING_US_TO_UK[word_lower] ELSE word_lower
            ELSE word_lower
    IN IF is_upper THEN upper[result]
       ELSE IF is_capitalized THEN capitalize(result)
       ELSE result

\* The prefix/core/suffix split shared by convert_sentence_spelling and
\* corrupt_text_mobile: peel the leading, then the trailing, non-alphanumerics.
RECURSIVE peel_prefix(_)
peel_prefix(core) ==
    IF core # "" /\ ~isalnum_c(Head(core))
    THEN LET rest == peel_prefix(Tail(core))
         IN [prefix |-> Head(core) \o rest.prefix, core |-> rest.core]
    ELSE [prefix |-> "", core |-> core]
RECURSIVE peel_suffix(_)
peel_suffix(core) ==
    IF core # "" /\ ~isalnum_c(SubSeq(core, Len(core), Len(core)))
    THEN LET rest == peel_suffix(SubSeq(core, 1, Len(core) - 1))
         IN [suffix |-> rest.suffix \o SubSeq(core, Len(core), Len(core)), core |-> rest.core]
    ELSE [suffix |-> "", core |-> core]
\* A mutant of peel: the trailing non-alphanumerics stay on the core.
peel_prefix_only(word) ==
    LET p == peel_prefix(word)
    IN [prefix |-> p.prefix, core |-> p.core, suffix |-> ""]

peel(word) ==
    LET p == peel_prefix(word)
        s == peel_suffix(p.core)
    IN [prefix |-> p.prefix, core |-> s.core, suffix |-> s.suffix]

\* A mutant of convert_sentence_spelling: the whole token is looked up, its
\* punctuation included.
convert_sentence_spelling_no_peel(sentence, variant) ==
    LET words == split(sentence)
    IN join[[i \in 1..Len(words) |-> get_spelling_for_variant(words[i], variant)]]

\* convert_sentence_spelling(sentence, variant)
convert_sentence_spelling(sentence, variant) ==
    LET words == split(sentence)
        conv(word) ==
            LET p == peel(word)
                core == IF p.core # "" THEN get_spelling_for_variant(p.core, variant)
                        ELSE p.core
            IN p.prefix \o core \o p.suffix
    IN join[[i \in 1..Len(words) |-> conv(words[i])]]

\* Python's None, for the optional variant argument
None == "<None>"

\* VARIANT_CONFIG.get(variant, VARIANT_CONFIG['US']).get('spelling', 'US'), the
\* lookup made by get_sample_sentences and again by generate_dataset
variant_spelling(variant) ==
    LET config == IF variant \in DOMAIN VARIANT_CONFIG THEN VARIANT_CONFIG[variant]
                  ELSE VARIANT_CONFIG["US"]
    IN config.spelling

\* get_sample_sentences(variant, include_regional, include_short)
get_sample_sentences(variant, include_regional, include_short) ==
    LET spelling == variant_spelling(variant)
        base == [i \in 1..Len(EV_SAMPLE_SENTENCES) |->
                    convert_sentence_spelling(EV_SAMPLE_SENTENCES[i], spelling)]
        regional == IF include_regional /\ variant \in DOMAIN REGIONAL_SENTENCES
                    THEN REGIONAL_SENTENCES[variant] ELSE <<>>
        short == IF include_short THEN SHORT_MESSAGES ELSE <<>>
    IN base \o regional \o short

\* get_protected_words(variant)
get_protected_words(variant) ==
    IF variant = None THEN ALL_PROTECTED_WORDS \cup PRESERVED_ABBREVIATIONS
    ELSE IF variant \in DOMAIN VARIANT_CONFIG
         THEN PRESERVED_ABBREVIATIONS
              \cup {lower[w] : w \in Range(VARIANT_CONFIG[variant].protected)}
         ELSE PRESERVED_ABBREVIATIONS

\* is_protected_word(word, variant)
is_protected_word(word, variant) ==
    LET word_lower == strip(lower[word], Chars(".,!?;:'\""))
    IN word_lower \in get_protected_words(variant)

(***************************************************************************)
(* generate_typos.py: the protection classifier                            *)
(***************************************************************************)
\* should_protect_word(word, variant)
should_protect_word(word, variant) ==
    LET word_lower == strip(lower[word], Chars(".,!?;:'\"()[]{}"))
    IN \/ word_lower \in PRESERVED_ABBREVIATIONS
       \/ word_lower \in PROTECTED_PROPER_NOUNS
       \/ is_protected_word(word, variant)
       \/ isdigit(replace[replace[word_lower, ".", ""], ",", ""])
       \/ Len(word_lower) = 1

(***************************************************************************)
(* PROTECTED_PATTERNS.  The patterns that can match a text without digits, *)
(* back-ticks and emoji are modelled, each by the list of (start, end)     *)
(* offsets that pattern.finditer(text) yields, 0-based and end-exclusive.  *)
(* The phone, unit, time, date and money patterns all need a digit, the    *)
(* code pattern a back-tick and the emoji pattern an emoji, so on such a   *)
(* text they yield nothing.                                                *)
(***************************************************************************)
WordChars == LowerSet \cup UpperSet \cup DigitSet \cup {"_"}
TLDS == <<"com", "org", "net", "edu", "gov", "io", "co", "app">>

\* text[a:b]
Slice(text, a, b) == SubSeq(text, Min(a, Len(text)) + 1, Min(b, Len(text)))

\* the maximal runs of non-blank characters (\S+), as (start, end) offsets
runs(text) ==
    LET starts == {i \in 0..(Len(text) - 1) :
                      /\ CharAt(text, i) # " "
                      /\ (i = 0 \/ CharAt(text, i - 1) = " ")}
        stop(i) == CHOOSE j \in (i + 1)..Len(text) :
                      /\ \A k \in i..(j - 1) : CharAt(text, k) # " "
                      /\ (j = Len(text) \/ CharAt(text, j) = " ")
        order == Sorted(starts)
    IN [n \in 1..Len(order) |-> <<order[n], stop(order[n])>>]

\* The matches of  <literal>\S+  (re.IGNORECASE): in each run, from the first
\* place where the literal is followed by a non-blank, to the end of the run.
literal_rest_matches(text, literals) ==
    LET rs == runs(text)
        hits(r) == {i \in r[1]..(r[2] - 1) :
                       \E lit \in literals :
                           /\ i + Len(lit) < r[2]
                           /\ lower[Slice(text, i, i + Len(lit))] = lit}
        found == {n \in 1..Len(rs) : hits(rs[n]) # {}}
        order == Sorted(found)
    IN [n \in 1..Len(order) |->
           <<CHOOSE i \in hits(rs[order[n]]) : \A j \in hits(rs[order[n]]) : i <= j,
             rs[order[n]][2]>>]

\* re.compile(r'https?://\S+', re.IGNORECASE)
pattern_http(text) == literal_rest_matches(text, {"http://", "https://"})
\* re.compile(r'www\.\S+', re.IGNORECASE)
pattern_www(text) == literal_rest_matches(text, {"www."})

\* re.compile(r'\S+\.(com|org|net|edu|gov|io|co|app)\b', re.IGNORECASE): from the
\* scan position s of a run ending at b, \S+ is greedy, so the match ends at the
\* last dot that is followed by a top-level domain and a word boundary.
tld_end(text, k, b) ==
    {k + 1 + Len(TLDS[t]) : t \in {t \in 1..Len(TLDS) :
        /\ k + 1 + Len(TLDS[t]) <= b
        /\ lower[Slice(text, k + 1, k + 1 + Len(TLDS[t]))] = TLDS[t]
        /\ (k + 1 + Len(TLDS[t]) = b \/ CharAt(text, k + 1 + Len(TLDS[t])) \notin WordChars)}}
RECURSIVE tld_from(_, _, _)
tld_from(text, s, b) ==
    LET dots == {k \in (s + 1)..(b - 1) : CharAt(text, k) = "." /\ tld_end(text, k, b) # {}}
        k == CHOOSE x \in dots : \A y \in dots : x >= y
        t == CHOOSE x \in 1..Len(TLDS) :
                /\ k + 1 + Len(TLDS[x]) \in tld_end(text, k, b)
                /\ lower[Slice(text, k + 1, k + 1 + Len(TLDS[x]))] = TLDS[x]
                /\ \A y \in 1..(x - 1) :
                      ~(/\ k + 1 + Len(TLDS[y]) \in tld_end(text, k, b)
                        /\ lower[Slice(text, k + 1, k + 1 + Len(TLDS[y]))] = TLDS[y])
        e == k + 1 + Len(TLDS[t])
    IN IF dots = {} THEN <<>> ELSE << <<s, e>> >> \o tld_from(text, e, b)
RECURSIVE concat(_)
concat(seqs) == IF Len(seqs) = 0 THEN <<>> ELSE Head(seqs) \o concat(Tail(seqs))
pattern_tld(text) ==
    LET rs == runs(text)
    IN concat([n \in 1..Len(rs) |-> tld_from(text, rs[n][1], rs[n][2])])

\* re.compile(r'\S+@\S+\.\S+'): a run with an '@' after its first character and a
\* '.' at least two characters later that is not its last character, as a whole
pattern_email(text) ==
    LET rs == runs(text)
        ok(r) == \E i \in (r[1] + 1)..(r[2] - 1) :
                    /\ CharAt(text, i) = "@"
                    /\ \E j \in (i + 2)..(r[2] - 2) : CharAt(text, j) = "."
        order == Sorted({n \in 1..Len(rs) : ok(rs[n])})
    IN [n \in 1..Len(order) |-> rs[order[n]]]

\* re.compile(r'[@#]\w+')
pattern_tag(text) ==
    LET starts == {i \in 0..(Len(text) - 2) :
                      CharAt(text, i) \in {"@", "#"} /\ CharAt(text, i + 1) \in WordChars}
        stop(i) == CHOOSE j \in (i + 2)..Len(text) :
                      /\ \A k \in (i + 1)..(j - 1) : CharAt(text, k) \in WordChars
                      /\ (j = Len(text) \/ CharAt(text, j) \notin WordChars)
        order == Sorted(starts)
    IN [n \in 1..Len(order) |-> <<order[n], stop(order[n])>>]

\* for pattern in PROTECTED_PATTERNS: for match in pattern.finditer(text):
\*     protected_spans.append((match.start(), match.end()))
pattern_matches(text) ==
    pattern_http(text) \o pattern_www(text) \o pattern_tld(text)
    \o pattern_email(text) \o pattern_tag(text)

\* (a, b) < (c, d) for tuples
span_less(x, y) == x[1] < y[1] \/ (x[1] = y[1] /\ x[2] < y[2])

\* protected_spans.sort()
sort(spans) ==
    [n \in 1..Len(spans) |->
        spans[CHOOSE i \in 1..Len(spans) :
                 Cardinality({j \in 1..Len(spans) :
                     span_less(spans[j], spans[i]) \/ (spans[j] = spans[i] /\ j < i)}) = n - 1]]

\* A mutant of merge_step: a span that starts exactly at the last end is appended
\* instead of merged (start < end in place of start <= end).
merge_step_strict(merged, span) ==
    LET last == merged[Len(merged)]
    IN IF span[1] < last[2]
       THEN [merged EXCEPT ![Len(merged)] = <<last[1], Max(last[2], span[2])>>]
       ELSE Append(merged, span)

\* One turn of the merge loop: for start, end in protected_spans[1:]
merge_step(merged, span) ==
    LET last == merged[Len(merged)]
    IN IF span[1] <= last[2]
       THEN [merged EXCEPT ![Len(merged)] = <<last[1], Max(last[2], span[2])>>]
       ELSE Append(merged, span)

\* The merge of find_protected_spans, from the collected matches
RECURSIVE merge_from(_, _)
merge_from(merged, rest) ==
    IF Len(rest) = 0 THEN merged
    ELSE merge_from(merge_step(merged, Head(rest)), Tail(rest))
merge_spans(protected_spans) ==
    IF Len(protected_spans) > 0
    THEN LET sorted == sort(protected_spans)
         IN merge_from(<<sorted[1]>>, Tail(sorted))
    ELSE <<>>

\* find_protected_spans(text)
find_protected_spans(text) == merge_spans(pattern_matches(text))

(***************************************************************************)
(* The random module.  Every draw of the engine is an explicit argument:   *)
(* a Boolean for the outcome of  random.random() < p,  an index for        *)
(* random.choice and random.randint, a key for random.choices.  The sets   *)
(* below are the outcomes a draw can have; from_u maps a value u of        *)
(* random.random() (in hundredths) to the outcome the library computes.    *)
(***************************************************************************)
RandomValues == 0..99

\* the outcomes of  random.random() < p
random_less(p) == {u < p : u \in RandomValues}
\* random.choice(seq) and random.randint(0, n - 1), as an index
choice_from_u(u, n) == (u * n) \div 100
\* random.choices(keys, weights)[0]: the keys that carry weight
SumTo(pairs, i) ==
    LET RECURSIVE s(_)
        s(j) == IF j = 0 THEN 0 ELSE pairs[j][2] + s(j - 1)
    IN s(i)
random_choices(pairs) == {pairs[i][1] : i \in {i \in 1..Len(pairs) : pairs[i][2] > 0}}
choices_from_u(u, pairs) ==
    LET total == SumTo(pairs, Len(pairs))
        i == CHOOSE i \in 1..Len(pairs) :
                /\ u * total < 100 * SumTo(pairs, i)
                /\ \A j \in 1..(i - 1) : ~(u * total < 100 * SumTo(pairs, j))
    IN pairs[i][1]

(***************************************************************************)
(* generate_typos.py: the error operators                                  *)
(***************************************************************************)
\* apply_adjacent_error(char); adj is the index drawn by random.choice
\* A mutant of apply_adjacent_error: the adjacent key is returned in lower case
apply_adjacent_error_lower(char, adj) ==
    LET char_lower == lower_c(char)
    IN IF char_lower \in DOMAIN MOBILE_ADJACENT_KEYS
       THEN MOBILE_ADJACENT_KEYS[char_lower][adj + 1]
       ELSE char

apply_adjacent_error(char, adj) ==
    LET char_lower == lower_c(char)
    IN IF char_lower \in DOMAIN MOBILE_ADJACENT_KEYS
       THEN LET adjacent == MOBILE_ADJACENT_KEYS[char_lower][adj + 1]
            IN IF islower_c(char) THEN adjacent ELSE upper_c(adjacent)
       ELSE char

\* apply_omission(word, pos)
\* A mutant of apply_omission: without the guard on the length of the word
apply_omission_unguarded(word, pos) ==
    Slice(word, 0, pos) \o Slice(word, pos + 1, Len(word))

apply_omission(word, pos) ==
    IF Len(word) <= 1 THEN word
    ELSE Slice(word, 0, pos) \o Slice(word, pos + 1, Len(word))

\* apply_insertion(word, pos); dup is the outcome of random.random() < 0.6
\* A mutant of apply_insertion: the new character takes the place of the old one
apply_insertion_overwrite(word, pos, dup, adj) ==
    IF pos >= Len(word) THEN word
    ELSE LET char == CharAt(word, pos)
         IN Slice(word, 0, pos)
               \o (IF dup THEN char ELSE apply_adjacent_error(char, adj))
               \o Slice(word, pos + 1, Len(word))

apply_insertion(word, pos, dup, adj) ==
    IF pos >= Len(word) THEN word
    ELSE LET char == CharAt(word, pos)
         IN IF dup THEN Slice(word, 0, pos) \o char \o Slice(word, pos, Len(word))
            ELSE Slice(word, 0, pos) \o apply_adjacent_error(char, adj)
                 \o Slice(word, pos, Len(word))

\* apply_transposition(word, pos)
apply_transposition(word, pos) ==
    IF pos >= Len(word) - 1 THEN word
    ELSE Slice(word, 0, pos) \o CharAt(word, pos + 1) \o CharAt(word, pos)
         \o Slice(word, pos + 2, Len(word))

\* chars[pos] = c; ''.join(chars)
set_char(word, pos, c) == Slice(word, 0, pos) \o c \o Slice(word, pos + 1, Len(word))

\* The draws of one call of corrupt_word_mobile:
\*   thumb       random.random() < 0.3                      (line 472)
\*   typo        index of random.choice(THUMB_TYPING_ERRORS[word_lower])
\*   error_type  random.choices(ERROR_WEIGHTS ...)[0]       (line 482)
\*   pos         random.randint(0, len(word) - 1)           (line 487)
\*   dup         random.random() < 0.6                      (line 449)
\*   adj         index of random.choice(MOBILE_ADJACENT_KEYS[char_lower])
\*   sub         index of random.choice('abcdefghijklmnopqrstuvwxyz')
NoDraw == [thumb |-> FALSE, typo |-> 0, error_type |-> "space_error", pos |-> 0,
           dup |-> FALSE, adj |-> 0, sub |-> 0]

\* A mutant of thumb_typo: the listed typo is returned as it is
thumb_typo_as_listed(word, typo) == typo

\* Lines 472-479: the listed typo in the capitalization of the word
thumb_typo(word, typo) ==
    LET typo1 == IF isupper_c(CharAt(word, 0)) /\ Len(typo) > 0
                 THEN upper_c(CharAt(typo, 0)) \o Slice(typo, 1, Len(typo))
                 ELSE typo
    IN IF isupper(word) THEN upper[typo1] ELSE typo1

\* A mutant of corrupt_word_mobile: the guard is len(word) < 1, so a word of one
\* character goes through the operators.
corrupt_word_mobile_short(word, d) ==
    IF Len(word) < 1 THEN word
    ELSE LET word_lower == lower[word] IN
    IF word_lower \in DOMAIN THUMB_TYPING_ERRORS /\ d.thumb
    THEN thumb_typo(word, THUMB_TYPING_ERRORS[word_lower][d.typo + 1])
    ELSE CASE d.error_type = "adjacent" ->
                set_char(word, d.pos, apply_adjacent_error(CharAt(word, d.pos), d.adj))
           [] d.error_type = "omission" -> apply_omission(word, d.pos)
           [] d.error_type = "insertion" -> apply_insertion(word, d.pos, d.dup, d.adj)
           [] d.error_type = "transposition" -> apply_transposition(word, d.pos)
           [] d.error_type = "substitution" ->
                set_char(word, d.pos, CharAt(ASCII_LOWERCASE, d.sub))
           [] d.error_type = "case_error" ->
                set_char(word, d.pos, swapcase_c(CharAt(word, d.pos)))
           [] OTHER -> word

\* corrupt_word_mobile(word), with its draws d
corrupt_word_mobile(word, d) ==
    IF Len(word) <= 1 THEN word
    ELSE LET word_lower == lower[word] IN
    IF word_lower \in DOMAIN THUMB_TYPING_ERRORS /\ d.thumb
    THEN thumb_typo(word, THUMB_TYPING_ERRORS[word_lower][d.typo + 1])
    ELSE CASE d.error_type = "adjacent" ->
                set_char(word, d.pos, apply_adjacent_error(CharAt(word, d.pos), d.adj))
           [] d.error_type = "omission" -> apply_omission(word, d.pos)
           [] d.error_type = "insertion" -> apply_insertion(word, d.pos, d.dup, d.adj)
           [] d.error_type = "transposition" -> apply_transposition(word, d.pos)
           [] d.error_type = "substitution" ->
                set_char(word, d.pos, CharAt(ASCII_LOWERCASE, d.sub))
           [] d.error_type = "case_error" ->
                set_char(word, d.pos, swapcase_c(CharAt(word, d.pos)))
           [] OTHER -> word

\* The draws a call of corrupt_word_mobile(word) can make, one record per
\* combination of the draws the call reads (a draw it does not read is left at
\* its NoDraw value).
ErrorTypes == random_choices(ERROR_WEIGHTS)
AdjIndexes(char) ==
    IF lower_c(char) \in DOMAIN MOBILE_ADJACENT_KEYS
    THEN 0..(Len(MOBILE_ADJACENT_KEYS[lower_c(char)]) - 1) ELSE {0}
word_draws(word) ==
    LET word_lower == lower[word]
        positions == 0..(Max(Len(word), 1) - 1)
        char(p) == IF p < Len(word) THEN CharAt(word, p) ELSE ""
        thumb == IF word_lower \in DOMAIN THUMB_TYPING_ERRORS /\ TRUE \in random_less(30)
                 THEN {[NoDraw EXCEPT !.thumb = TRUE, !.typo = t] :
                          t \in 0..(Len(THUMB_TYPING_ERRORS[word_lower]) - 1)}
                 ELSE {}
        plain == {[NoDraw EXCEPT !.error_type = e, !.pos = p] :
                     e \in ErrorTypes \ {"adjacent", "insertion", "substitution"},
                     p \in positions}
        adjacent == UNION {{[NoDraw EXCEPT !.error_type = "adjacent", !.pos = p, !.adj = a] :
                               a \in AdjIndexes(char(p))} : p \in positions}
        insertion == UNION {{[NoDraw EXCEPT !.error_type = "insertion", !.pos = pb[1],
                                            !.dup = pb[2], !.adj = a] :
                                a \in IF pb[2] THEN {0} ELSE AdjIndexes(char(pb[1]))} :
                            pb \in positions \X random_less(60)}
        substitution == {[NoDraw EXCEPT !.error_type = "substitution", !.pos = p, !.sub = s] :
                            p \in positions, s \in 0..(Len(ASCII_LOWERCASE) - 1)}
    IN thumb \cup plain \cup adjacent \cup insertion \cup substitution

(***************************************************************************)
(* generate_typos.py: corrupt_text_mobile                                  *)
(***************************************************************************)
\* The draws of one turn of the word loop:
\*   hit          random.random() < error_rate               (line 551)
\*   w            the draws of corrupt_word_mobile(core)
\*   space        random.random() < 0.03                     (line 555)
\*   space_error  random.choices(SPACEBAR_ERRORS ...)[0]     (line 556)
NoTokenDraw == [hit |-> FALSE, w |-> NoDraw, space |-> FALSE, space_error |-> "no_space"]

\* One turn of  for i, word in enumerate(words)  (lines 532-572): the new result_words
corrupt_token(result_words, i, word, error_rate, variant, d) ==
    LET p == peel(word)
        core == IF p.core # "" /\ d.hit THEN corrupt_word_mobile(p.core, d.w) ELSE p.core
        new == p.prefix \o core \o p.suffix
    IN IF should_protect_word(p.core, variant)
       THEN Append(result_words, p.prefix \o p.core \o p.suffix)
       ELSE IF i > 0 /\ d.space
            THEN IF d.space_error = "no_space"
                 THEN IF Len(result_words) > 0
                      THEN [result_words EXCEPT ![Len(result_words)] = @ \o new]
                      ELSE Append(result_words, new)
                 ELSE IF d.space_error = "double_space"
                 THEN Append(Append(result_words, ""), new)
                 ELSE Append(Append(result_words,
                                    CharAt(d.space_error, Len(d.space_error) - 1)), new)
            ELSE Append(result_words, new)

\* The draws one turn of the word loop can make on this word
token_draws(i, word, error_rate, variant) ==
    LET p == peel(word)
        hits == IF p.core # "" THEN random_less(error_rate) ELSE {FALSE}
        spaces == IF i > 0 THEN random_less(3) ELSE {FALSE}
    IN IF should_protect_word(p.core, variant) THEN {NoTokenDraw}
       ELSE UNION {
              {[hit |-> h, w |-> w, space |-> s, space_error |-> e] :
                  w \in IF h THEN word_draws(p.core) ELSE {NoDraw},
                  e \in IF s THEN random_choices(SPACEBAR_ERRORS) ELSE {"no_space"}} :
              <<h, s>> \in hits \X spaces}

\* The draws after the loop: random.random() < 0.15, < 0.1, < 0.05, < 0.05
\* (lines 577-586)
NoFinalDraw == [shift |-> FALSE, comma |-> FALSE, period |-> FALSE, apostrophe |-> FALSE]
final_draws(result) ==
    {[shift |-> a, comma |-> b, period |-> c, apostrophe |-> e] :
        a \in IF result # "" THEN random_less(15) ELSE {FALSE},
        b \in random_less(10), c \in random_less(5), e \in random_less(5)}

\* Lines 574-588: the joined words, then the shift-key miss and the punctuation drops
finish_text(result_words, f) ==
    LET joined == join[result_words]
        r1 == IF joined # "" /\ f.shift
              THEN lower_c(CharAt(joined, 0)) \o Slice(joined, 1, Len(joined)) ELSE joined
        r2 == IF f.comma THEN replace[r1, ",", ""] ELSE r1
        r3 == IF f.period THEN replace[r2, ".", ""] ELSE r2
    IN IF f.apostrophe THEN replace[r3, "'", ""] ELSE r3

(***************************************************************************)
(* The engine on the process-global generator.  A seed is the sequence of  *)
(* values random.random() returns (in hundredths), read cyclically; rng    *)
(* counts the values read so far.  Each operator below reads the draws of  *)
(* one call in the order the code makes them and gives the draws together  *)
(* with the new count.                                                     *)
(***************************************************************************)
random_at(seed, rng) == seed[(rng % Len(seed)) + 1]

\* The draws of corrupt_word_mobile(word), lines 466-514
word_draws_from(seed, rng, word) ==
    IF Len(word) <= 1 THEN [d |-> NoDraw, rng |-> rng]
    ELSE
    LET word_lower == lower[word]
        keyed == word_lower \in DOMAIN THUMB_TYPING_ERRORS
        thumb == keyed /\ random_at(seed, rng) < 30
        k1 == IF keyed THEN rng + 1 ELSE rng
    IN IF thumb
       THEN [d |-> [NoDraw EXCEPT !.thumb = TRUE,
                                  !.typo = choice_from_u(random_at(seed, k1),
                                               Len(THUMB_TYPING_ERRORS[word_lower]))],
             rng |-> k1 + 1]
       ELSE
       LET error_type == choices_from_u(random_at(seed, k1), ERROR_WEIGHTS)
           pos == choice_from_u(random_at(seed, k1 + 1), Len(word))
           k2 == k1 + 2
           char_lower == lower_c(CharAt(word, pos))
           has_adj == char_lower \in DOMAIN MOBILE_ADJACENT_KEYS
           adj(k) == IF has_adj
                     THEN choice_from_u(random_at(seed, k), Len(MOBILE_ADJACENT_KEYS[char_lower]))
                     ELSE 0
           after_adj(k) == IF has_adj THEN k + 1 ELSE k
           base == [NoDraw EXCEPT !.error_type = error_type, !.pos = pos]
       IN CASE error_type = "adjacent" ->
                 [d |-> [base EXCEPT !.adj = adj(k2)], rng |-> after_adj(k2)]
            [] error_type = "insertion" ->
                 IF random_at(seed, k2) < 60
                 THEN [d |-> [base EXCEPT !.dup = TRUE], rng |-> k2 + 1]
                 ELSE [d |-> [base EXCEPT !.adj = adj(k2 + 1)], rng |-> after_adj(k2 + 1)]
            [] error_type = "substitution" ->
                 [d |-> [base EXCEPT !.sub = choice_from_u(random_at(seed, k2),
                                                           Len(ASCII_LOWERCASE))],
                  rng |-> k2 + 1]
            [] OTHER -> [d |-> base, rng |-> k2]

\* The draws of one turn of the word loop, lines 546-556
token_draws_from(seed, rng, i, word, error_rate, variant) ==
    LET core == peel(word).core
    IN IF should_protect_word(core, variant) THEN [d |-> NoTokenDraw, rng |-> rng]
       ELSE
       LET hit == core # "" /\ random_at(seed, rng) < error_rate
           k1 == IF core # "" THEN rng + 1 ELSE rng
           w == IF hit THEN word_draws_from(seed, k1, core) ELSE [d |-> NoDraw, rng |-> k1]
           space == i > 0 /\ random_at(seed, w.rng) < 3
           k2 == IF i > 0 THEN w.rng + 1 ELSE w.rng
       IN [d |-> [hit |-> hit, w |-> w.d, space |-> space,
                  space_error |-> IF space
                                  THEN choices_from_u(random_at(seed, k2), SPACEBAR_ERRORS)
                                  ELSE NoTokenDraw.space_error],
           rng |-> IF space THEN k2 + 1 ELSE k2]

\* One turn of the word loop on the generator: the new result_words and count
word_turn_from(seed, rng, i, word, result_words, error_rate, variant) ==
    LET t == token_draws_from(seed, rng, i, word, error_rate, variant)
    IN [result_words |-> corrupt_token(result_words, i, word, error_rate, variant, t.d),
        rng |-> t.rng]

\* The word loop from word i on, lines 532-572
RECURSIVE word_loop_from(_, _, _, _, _, _, _)
word_loop_from(seed, rng, words, i, result_words, error_rate, variant) ==
    IF i >= Len(words) THEN [result_words |-> result_words, rng |-> rng]
    ELSE CHOOSE out \in
            {word_loop_from(seed, turn.rng, words, i + 1, turn.result_words,
                            error_rate, variant) :
                turn \in {word_turn_from(seed, rng, i, words[i + 1], result_words,
                                         error_rate, variant)}} : TRUE

\* The draws after the loop, lines 577-586
final_draws_from(seed, rng, result) ==
    LET k1 == IF result # "" THEN rng + 1 ELSE rng
    IN [f |-> [shift |-> result # "" /\ random_at(seed, rng) < 15,
               comma |-> random_at(seed, k1) < 10,
               period |-> random_at(seed, k1 + 1) < 5,
               apostrophe |-> random_at(seed, k1 + 2) < 5],
        rng |-> k1 + 3]

\* corrupt_text_mobile(text, error_rate, variant): the text returned and the new count
corrupt_text_mobile(text, error_rate, variant, seed, rng) ==
    CHOOSE out \in
        {[result |-> finish_text(loop.result_words,
                                 final_draws_from(seed, loop.rng, join[loop.result_words]).f),
          rng |-> final_draws_from(seed, loop.rng, join[loop.result_words]).rng] :
            loop \in {word_loop_from(seed, rng, words, 0, <<>>, error_rate, variant) :
                         words \in {split(text)}}} :
        TRUE

(***************************************************************************)
(* generate_typos.py: generate_dataset                                     *)
(***************************************************************************)
\* seq with every element kept at its first occurrence only
unique[seq \in Seq(STRING)] ==
    IF Len(seq) <= 1 THEN seq
    ELSE unique[SubSeq(seq, 1, Len(seq) \div 2)]
         \o SelectSeq(unique[SubSeq(seq, Len(seq) \div 2 + 1, Len(seq))],
                      LAMBDA s : s \notin Range(SubSeq(seq, 1, Len(seq) \div 2)))

\* variant_sentences + base_sentences (lines 697-702)
combined_sentences(variant) ==
    get_sample_sentences(variant, TRUE, TRUE)
    \o [i \in 1..Len(SAMPLE_SENTENCES) |->
           convert_sentence_spelling(SAMPLE_SENTENCES[i], variant_spelling(variant))]

\* list(set(...)) (line 705): the distinct sentences, in an order that the string
\* hashes of the run decide.  The orders taken here are the rotations of the
\* order of first occurrence.
rotate(seq, r) == SubSeq(seq, r + 1, Len(seq)) \o SubSeq(seq, 1, r)

\* A mutant of error_rates: the flag is not read, the rate is the base rate
error_rates_fixed(error_rate, variable_error_rate) == <<<<error_rate, 100>>>>

\* error_rates and error_weights (lines 708-709), as <<rate, weight>> pairs
error_rates(error_rate, variable_error_rate) ==
    IF variable_error_rate
    THEN <<<<5, 5>>, <<10, 10>>, <<15, 20>>, <<20, 30>>, <<25, 20>>, <<30, 10>>, <<35, 5>>>>
    ELSE <<<<error_rate, 100>>>>

\* A mutant of clean_record: the clean sample is labelled as a corrupted one
clean_record_mislabelled(clean, variant) ==
    [input |-> clean, output |-> clean, variant |-> variant, typo_type |-> "corrupted"]

\* The record of a clean sample (lines 718-723)
clean_record(clean, variant) ==
    [input |-> clean, output |-> clean, variant |-> variant, typo_type |-> "none"]

\* The keys of the dict literal of a clean sample, in the order it lists them
clean_record_fields == <<"input", "output", "variant", "typo_type">>

\* A mutant of variant_record: the typo_type is not computed from the texts
variant_record_always_corrupted(corrupted, clean, variant) ==
    [input |-> corrupted, output |-> clean, variant |-> variant, typo_type |-> "corrupted"]

\* A mutant of variant_record: the label is the one of a clean sample
variant_record_all_none(corrupted, clean, variant) ==
    [input |-> corrupted, output |-> clean, variant |-> variant, typo_type |-> "none"]

\* A mutant of variant_record: input and output are swapped
variant_record_swapped(corrupted, clean, variant) ==
    [input |-> clean, output |-> corrupted, variant |-> variant,
     typo_type |-> IF corrupted # clean THEN "corrupted" ELSE "none"]

\* The record of a variant (lines 744-749)
variant_record(corrupted, clean, variant) ==
    [input |-> corrupted, output |-> clean, variant |-> variant,
     typo_type |-> IF corrupted # clean THEN "corrupted" ELSE "none"]

\* The keys of the dict literal of a variant, in the order it lists them
variant_record_fields == <<"input", "output", "variant", "typo_type">>

\* A mutant of must_retry: an unchanged result is not retried
must_retry_only_repeated(corrupted, clean, generated_variants, attempts) ==
    corrupted \in generated_variants /\ attempts < 5

\* A mutant of must_retry: the bound on the attempts is lost
must_retry_unbounded(corrupted, clean, generated_variants, attempts) ==
    corrupted = clean \/ corrupted \in generated_variants

\* The condition of the retry loop (line 737)
must_retry(corrupted, clean, generated_variants, attempts) ==
    (corrupted = clean \/ corrupted \in generated_variants) /\ attempts < 5

\* A mutant of is_unique: the test is inverted
is_unique_inverted(corrupted, generated_variants) == corrupted \in generated_variants

\* A mutant of is_unique: every result is taken for a new one
is_unique_always(corrupted, generated_variants) == TRUE

\* The test before a variant is added (line 742)
is_unique(corrupted, generated_variants) == corrupted \notin generated_variants

(***************************************************************************)
(* Each specification below runs one operation; the variables of the       *)
(* others stay at these values.                                            *)
(***************************************************************************)
IdleGs == gs_word = "" /\ gs_variant = "" /\ gs_result = "" /\ gs_pc = "idle"
IdleSp ==
    /\ sp_word = "" /\ sp_variant = "" /\ sp_include_regional = FALSE
    /\ sp_include_short = FALSE /\ sp_result = FALSE /\ sp_sentences = <<>>
    /\ sp_protected = {} /\ sp_spelling = "" /\ sp_pc = "idle"
IdleFs == fs_text = "" /\ fs_protected_spans = <<>> /\ fs_merged = <<>> /\ fs_pc = "idle"
IdleCw == cw_word = "" /\ cw_result = "" /\ cw_path = NoDraw /\ cw_pc = "idle"
IdleCt ==
    /\ ct_text = "" /\ ct_error_rate = 0 /\ ct_variant = "" /\ ct_words = <<>> /\ ct_i = 0
    /\ ct_result_words = <<>> /\ ct_result = "" /\ ct_log = <<>> /\ ct_pc = "idle"
IdleGd ==
    /\ gd_num_samples = 0 /\ gd_error_rate = 0 /\ gd_variant = ""
    /\ gd_clean_sample_ratio = 0 /\ gd_variable_error_rate = FALSE
    /\ gd_variants_per_sample = 0 /\ gd_all_sentences = <<>> /\ gd_dataset = <<>>
    /\ gd_i = 0 /\ gd_clean = "" /\ gd_generated_variants = {} /\ gd_v = 0
    /\ gd_sample_error_rate = 0 /\ gd_corrupted = "" /\ gd_attempts = 0 /\ gd_calls = <<>> /\ gd_emitted = <<>>
    /\ gd_seed = <<>> /\ gd_rng = 0 /\ gd_pc = "idle"
IdleCs == cs_sentence = "" /\ cs_variant = "" /\ cs_result = "" /\ cs_pc = "idle"

(***************************************************************************)
(* SpecSpelling: one call of get_spelling_for_variant(word, variant).      *)
(***************************************************************************)
SpellingPairs == Range(SPELLING_US_TO_UK_LITERAL)
TableWords == {p[1] : p \in SpellingPairs} \cup {p[2] : p \in SpellingPairs}
OtherWords == {"", "a", "I", "hello", "Hello", "HELLO", "iPhone", "mIxed", "x1", "B2B", "gray"}
SpellingWords ==
    UNION {{w, capitalize(w), upper[w]} : w \in TableWords} \cup OtherWords
SpellingTargets == {"US", "UK", "AU", "SG", "XX"}

InitSpelling ==
    /\ gs_word \in SpellingWords
    /\ gs_variant \in SpellingTargets
    /\ gs_result = ""
    /\ gs_pc = "call"
    /\ IdleSp /\ IdleFs /\ IdleCw /\ IdleCt /\ IdleGd /\ IdleCs

GetSpellingForVariant ==
    /\ gs_pc = "call"
    /\ gs_result' = get_spelling_for_variant(gs_word, gs_variant)
    /\ gs_pc' = "done"
    /\ UNCHANGED <<gs_word, gs_variant, spVars, fsVars, cwVars, ctVars, gdVars, csVars>>

NextSpelling == GetSpellingForVariant
SpecSpelling == InitSpelling /\ [][NextSpelling]_vars

(***************************************************************************)
(* SpecProtect: one call of a registry lookup or of should_protect_word.   *)
(***************************************************************************)
ProtectTokens ==
    {"", "a", "I", "(a)", "x.", ".", "..", "hello", "Hello!", "ok",
     "lol", "LOL", "lol!", "(lol)", "[brb]", "iphone", "iPhone", "\"London\"", "{tokyo}",
     "mate", "Mate,", "(mate)", "[mate]", "lah", "(lah)", "'lah'", "CR", "cr", "(cr)",
     "123", "1,234.5", "(1,000)", "12a", "3.", "no worries", "new york", "don't"}
ProtectVariants == {None, "US", "UK", "SG", "PH", "XX", ""}

InitProtect ==
    /\ sp_word \in ProtectTokens
    /\ sp_variant \in ProtectVariants
    /\ sp_include_regional \in BOOLEAN
    /\ sp_include_short \in BOOLEAN
    /\ sp_result = FALSE
    /\ sp_sentences = <<>>
    /\ sp_protected = {}
    /\ sp_spelling = ""
    /\ sp_pc = "call"
    /\ IdleGs /\ IdleFs /\ IdleCw /\ IdleCt /\ IdleGd /\ IdleCs

spUnchanged == <<sp_word, sp_variant, sp_include_regional, sp_include_short,
                 gsVars, fsVars, cwVars, ctVars, gdVars, csVars>>

\* result = should_protect_word(word, variant)
ShouldProtectWord ==
    /\ sp_pc = "call"
    /\ sp_result' = should_protect_word(sp_word, sp_variant)
    /\ sp_pc' = "should_protect_word"
    /\ UNCHANGED <<sp_sentences, sp_protected, sp_spelling, spUnchanged>>

\* sentences = get_sample_sentences(variant, include_regional, include_short)
GetSampleSentences ==
    /\ sp_pc = "call"
    /\ sp_sentences' = get_sample_sentences(sp_variant, sp_include_regional, sp_include_short)
    /\ sp_pc' = "get_sample_sentences"
    /\ UNCHANGED <<sp_result, sp_protected, sp_spelling, spUnchanged>>

\* protected = get_protected_words(variant)
GetProtectedWords ==
    /\ sp_pc = "call"
    /\ sp_protected' = get_protected_words(sp_variant)
    /\ sp_pc' = "get_protected_words"
    /\ UNCHANGED <<sp_result, sp_sentences, sp_spelling, spUnchanged>>

\* the spelling-system lookup at the head of generate_dataset
GenerateSpellingLookup ==
    /\ sp_pc = "call"
    /\ sp_spelling' = variant_spelling(sp_variant)
    /\ sp_pc' = "generate_dataset"
    /\ UNCHANGED <<sp_result, sp_sentences, sp_protected, spUnchanged>>

NextProtect ==
    \/ ShouldProtectWord
    \/ GetSampleSentences
    \/ GetProtectedWords
    \/ GenerateSpellingLookup
SpecProtect == InitProtect /\ [][NextProtect]_vars

(***************************************************************************)
(* SpecSpans: one call of find_protected_spans(text).                      *)
(***************************************************************************)
MaxMatches == 3

SpanTexts ==
    {"", "lol", "#tag lol", "lol www.a.io", "a@b.co #x", "see http://a.b", "me@x.org",
     "@john #a", "WWW.X.COM", "x.com.", "#a@b.c", "#a@b", "www.co", "5pm", "#a1 x"}
HasDigit(text) == \E i \in 1..Len(text) : SubSeq(text, i, i) \in DigitSet

\* The lists of at most n non-empty spans inside a text of the given length
MatchSpans(len) == {m \in (0..len) \X (0..len) : m[1] < m[2]}
MatchLists(len, n) == UNION {[1..k -> MatchSpans(len)] : k \in 0..n}

InitSpans ==
    /\ fs_text \in SpanTexts
    /\ fs_protected_spans = <<>>
    /\ fs_merged = <<>>
    /\ fs_pc = "collect"
    /\ IdleGs /\ IdleSp /\ IdleCw /\ IdleCt /\ IdleGd /\ IdleCs

\* Lines 409-411 on a text that only the modelled patterns can match
CollectMatches ==
    /\ fs_pc = "collect"
    /\ ~HasDigit(fs_text)
    /\ fs_protected_spans' = pattern_matches(fs_text)
    /\ fs_pc' = "merge"
    /\ UNCHANGED <<fs_text, fs_merged, gsVars, spVars, cwVars, ctVars, gdVars, csVars>>

\* Lines 409-411 on a text with digits: the phone, unit, time, date and money
\* patterns may match as well, and what they match is left open: any list of
\* at most MaxMatches non-empty spans inside the text.
CollectDigitMatches ==
    /\ fs_pc = "collect"
    /\ HasDigit(fs_text)
    /\ \E extra \in MatchLists(Len(fs_text), MaxMatches) :
          fs_protected_spans' = pattern_matches(fs_text) \o extra
    /\ fs_pc' = "merge"
    /\ UNCHANGED <<fs_text, fs_merged, gsVars, spVars, cwVars, ctVars, gdVars, csVars>>

\* Lines 413-424
MergeSpans ==
    /\ fs_pc = "merge"
    /\ fs_merged' = merge_spans(fs_protected_spans)
    /\ fs_pc' = "done"
    /\ UNCHANGED <<fs_text, fs_protected_spans, gsVars, spVars, cwVars, ctVars, gdVars, csVars>>

NextSpans == CollectMatches \/ CollectDigitMatches \/ MergeSpans
SpecSpans == InitSpans /\ [][NextSpans]_vars

(***************************************************************************)
(* SpecWord: one call of corrupt_word_mobile(word), over all its draws.    *)
(***************************************************************************)
WordInputs ==
    {"", "a", "A", "I", "5", "-", "ok", "Hi", "the", "The", "THE", "tExt", "x1", "it's", "HAVE"}

InitWord ==
    /\ cw_word \in WordInputs
    /\ cw_result = ""
    /\ cw_path = NoDraw
    /\ cw_pc = "call"
    /\ IdleGs /\ IdleSp /\ IdleFs /\ IdleCt /\ IdleGd /\ IdleCs

CorruptWordMobile ==
    /\ cw_pc = "call"
    /\ \E d \in word_draws(cw_word) :
          /\ cw_result' = corrupt_word_mobile(cw_word, d)
          /\ cw_path' = d
    /\ cw_pc' = "done"
    /\ UNCHANGED <<cw_word, gsVars, spVars, fsVars, ctVars, gdVars, csVars>>

NextWord == CorruptWordMobile
SpecWord == InitWord /\ [][NextWord]_vars

(***************************************************************************)
(* SpecOperator: one call of apply_omission, apply_insertion or            *)
(* apply_transposition at any position >= 0, the positions past the end of *)
(* the word included, or one call of corrupt_word_mobile.                  *)
(***************************************************************************)
MaxPos == 5
Operators == {"omission", "insertion", "transposition"}

InitOperator ==
    /\ cw_word \in WordInputs
    /\ cw_result = ""
    /\ cw_path = NoDraw
    /\ cw_pc \in {"apply", "call"}
    /\ IdleGs /\ IdleSp /\ IdleFs /\ IdleCt /\ IdleGd /\ IdleCs

ApplyOperator ==
    /\ cw_pc = "apply"
    /\ \E e \in Operators, p \in 0..MaxPos :
       \E dup \in IF e = "insertion" THEN BOOLEAN ELSE {FALSE} :
       \E a \in IF e = "insertion" /\ ~dup /\ p < Len(cw_word)
                THEN AdjIndexes(CharAt(cw_word, p)) ELSE {0} :
          /\ cw_result' = CASE e = "omission" -> apply_omission(cw_word, p)
                            [] e = "insertion" -> apply_insertion(cw_word, p, dup, a)
                            [] e = "transposition" -> apply_transposition(cw_word, p)
          /\ cw_path' = [NoDraw EXCEPT !.error_type = e, !.pos = p, !.dup = dup, !.adj = a]
    /\ cw_pc' = "applied"
    /\ UNCHANGED <<cw_word, gsVars, spVars, fsVars, ctVars, gdVars, csVars>>

NextOperator == ApplyOperator \/ CorruptWordMobile
SpecOperator == InitOperator /\ [][NextOperator]_vars

(***************************************************************************)
(* SpecText: one call of corrupt_text_mobile(text, error_rate, variant),   *)
(* a turn of the word loop at a time, over all its draws.                  *)
(***************************************************************************)
TextInputs ==
    {"", "k", "LOL", "Lol, ok", "ok lol", "mate k", "it's lol", "#tag lol", "lol www.a.io"}
TextRates == {0, 20, 100}
TextVariants == {None, "UK", "XX"}

InitText ==
    /\ ct_text \in TextInputs
    /\ ct_error_rate \in TextRates
    /\ ct_variant \in TextVariants
    /\ ct_words = split(ct_text)
    /\ ct_i = 0
    /\ ct_result_words = <<>>
    /\ ct_result = ""
    /\ ct_log = <<>>
    /\ ct_pc = "loop"
    /\ IdleGs /\ IdleSp /\ IdleFs /\ IdleCw /\ IdleGd /\ IdleCs

ctUnchanged == <<ct_text, ct_error_rate, ct_variant, ct_words,
                 gsVars, spVars, fsVars, cwVars, gdVars, csVars>>

\* One turn of the loop over the words (lines 532-572)
WordTurn ==
    /\ ct_pc = "loop"
    /\ ct_i < Len(ct_words)
    /\ \E d \in token_draws(ct_i, ct_words[ct_i + 1], ct_error_rate, ct_variant) :
          /\ ct_result_words' = corrupt_token(ct_result_words, ct_i, ct_words[ct_i + 1],
                                              ct_error_rate, ct_variant, d)
          /\ ct_log' = Append(ct_log,
                [protected |-> should_protect_word(peel(ct_words[ct_i + 1]).core, ct_variant),
                 space |-> d.space,
                 space_error |-> d.space_error])
    /\ ct_i' = ct_i + 1
    /\ UNCHANGED <<ct_result, ct_pc, ctUnchanged>>

\* After the loop (lines 574-588)
FinishText ==
    /\ ct_pc = "loop"
    /\ ct_i = Len(ct_words)
    /\ \E f \in final_draws(join[ct_result_words]) :
          ct_result' = finish_text(ct_result_words, f)
    /\ ct_pc' = "done"
    /\ UNCHANGED <<ct_i, ct_result_words, ct_log, ctUnchanged>>

NextText == WordTurn \/ FinishText
SpecText == InitText /\ [][NextText]_vars

(***************************************************************************)
(* SpecGen: one call of generate_dataset, a step of its loops at a time.   *)
(* gd_calls logs the calls of the engine; gd_emitted gives, for each       *)
(* record of gd_dataset, the sentence draw and the variant iteration it    *)
(* comes from (v = -1 for a clean sample), the retries made and the keys   *)
(* of the record in the order of its dict literal.                         *)
(***************************************************************************)
MaxSamples == 2
GenCleanRatios == {0, 30, 100}
GenErrorRates == {17}
GenVariantsPerSample == {0, 1, 3}
GenRotations == {0, 95}
Seeds == {<<0>>, <<99>>, <<2, 40, 99>>}

\* The distinct sentences of each variant, in the order of first occurrence
AllSentences ==
    ("UK" :> unique[combined_sentences("UK")]) @@ ("XX" :> unique[combined_sentences("XX")])

GenVariants == DOMAIN AllSentences

InitGen ==
    /\ gd_num_samples \in 1..MaxSamples
    /\ gd_error_rate \in GenErrorRates
    /\ gd_variant \in GenVariants
    /\ gd_clean_sample_ratio \in GenCleanRatios
    /\ gd_variable_error_rate \in BOOLEAN
    /\ gd_variants_per_sample \in GenVariantsPerSample
    /\ gd_all_sentences \in {rotate(AllSentences[gd_variant], r) : r \in GenRotations}
    /\ gd_seed \in Seeds
    /\ gd_rng = 0
    /\ gd_dataset = <<>>
    /\ gd_i = 0
    /\ gd_clean = ""
    /\ gd_generated_variants = {}
    /\ gd_v = 0
    /\ gd_sample_error_rate = 0
    /\ gd_corrupted = ""
    /\ gd_attempts = 0
    /\ gd_calls = <<>>
    /\ gd_emitted = <<>>
    /\ gd_pc = "sample"
    /\ IdleGs /\ IdleSp /\ IdleFs /\ IdleCw /\ IdleCt /\ IdleCs

gdParams == <<gd_num_samples, gd_error_rate, gd_variant, gd_clean_sample_ratio,
              gd_variable_error_rate, gd_variants_per_sample, gd_all_sentences, gd_seed>>
gdOthers == <<gsVars, spVars, fsVars, cwVars, ctVars, csVars>>

\* random.choice(all_sentences) (line 713)
drawn_sentence ==
    gd_all_sentences[choice_from_u(random_at(gd_seed, gd_rng), Len(gd_all_sentences)) + 1]
\* random.random() < clean_sample_ratio (line 716)
drawn_clean == random_at(gd_seed, gd_rng + 1) < gd_clean_sample_ratio

\* Lines 711-723: a sentence draw that becomes a clean sample
EmitClean ==
    /\ gd_pc = "sample"
    /\ gd_i < gd_num_samples
    /\ drawn_clean
    /\ gd_clean' = drawn_sentence
    /\ gd_rng' = gd_rng + 2
    /\ gd_dataset' = Append(gd_dataset, clean_record(drawn_sentence, gd_variant))
    /\ gd_emitted' = Append(gd_emitted, [i |-> gd_i, v |-> -1, attempts |-> 0,
                                          fields |-> clean_record_fields])
    /\ gd_i' = gd_i + 1
    /\ UNCHANGED <<gd_generated_variants, gd_v, gd_sample_error_rate, gd_corrupted,
                   gd_attempts, gd_calls, gd_pc, gdParams, gdOthers>>

\* Lines 711-726: a sentence draw that goes on to the variants
StartVariants ==
    /\ gd_pc = "sample"
    /\ gd_i < gd_num_samples
    /\ ~drawn_clean
    /\ gd_clean' = drawn_sentence
    /\ gd_rng' = gd_rng + 2
    /\ gd_generated_variants' = {}
    /\ gd_v' = 0
    /\ gd_pc' = "variant"
    /\ UNCHANGED <<gd_dataset, gd_emitted, gd_i, gd_sample_error_rate, gd_corrupted,
                   gd_attempts, gd_calls, gdParams, gdOthers>>

\* Lines 728-736: the error rate of a variant and the first call of the engine
CorruptVariant ==
    /\ gd_pc = "variant"
    /\ gd_v < gd_variants_per_sample
    /\ \E rate \in {choices_from_u(random_at(gd_seed, gd_rng),
                                     error_rates(gd_error_rate, gd_variable_error_rate))} :
       \E c \in {corrupt_text_mobile(gd_clean, rate, gd_variant, gd_seed, gd_rng + 1)} :
          /\ gd_sample_error_rate' = rate
          /\ gd_corrupted' = c.result
          /\ gd_rng' = c.rng
          /\ gd_calls' = Append(gd_calls, [i |-> gd_i, v |-> gd_v, attempts |-> 0,
                                           error_rate |-> rate])
    /\ gd_attempts' = 0
    /\ gd_pc' = "retry"
    /\ UNCHANGED <<gd_dataset, gd_emitted, gd_i, gd_clean, gd_generated_variants, gd_v,
                   gdParams, gdOthers>>

\* Lines 737-739: one turn of the retry loop
Retry ==
    /\ gd_pc = "retry"
    /\ must_retry(gd_corrupted, gd_clean, gd_generated_variants, gd_attempts)
    /\ \E c \in {corrupt_text_mobile(gd_clean, gd_sample_error_rate + 10, gd_variant,
                                      gd_seed, gd_rng)} :
          /\ gd_corrupted' = c.result
          /\ gd_rng' = c.rng
    /\ gd_calls' = Append(gd_calls, [i |-> gd_i, v |-> gd_v, attempts |-> gd_attempts + 1,
                                     error_rate |-> gd_sample_error_rate + 10])
    /\ gd_attempts' = gd_attempts + 1
    /\ UNCHANGED <<gd_dataset, gd_emitted, gd_i, gd_clean, gd_generated_variants, gd_v,
                   gd_sample_error_rate, gd_pc, gdParams, gdOthers>>

\* A mutant of EmitVariant: the result is not added to generated_variants
EmitVariantUntracked ==
    /\ gd_pc = "retry"
    /\ ~must_retry(gd_corrupted, gd_clean, gd_generated_variants, gd_attempts)
    /\ is_unique(gd_corrupted, gd_generated_variants)
    /\ gd_generated_variants' = gd_generated_variants
    /\ gd_dataset' = Append(gd_dataset, variant_record(gd_corrupted, gd_clean, gd_variant))
    /\ gd_emitted' = Append(gd_emitted, [i |-> gd_i, v |-> gd_v, attempts |-> gd_attempts,
                                          fields |-> variant_record_fields])
    /\ gd_v' = gd_v + 1
    /\ gd_pc' = "variant"
    /\ UNCHANGED <<gd_i, gd_clean, gd_sample_error_rate, gd_corrupted, gd_attempts,
                   gd_calls, gd_rng, gdParams, gdOthers>>

\* Lines 741-749: the result is new among the variants of this sentence
EmitVariant ==
    /\ gd_pc = "retry"
    /\ ~must_retry(gd_corrupted, gd_clean, gd_generated_variants, gd_attempts)
    /\ is_unique(gd_corrupted, gd_generated_variants)
    /\ gd_generated_variants' = gd_generated_variants \cup {gd_corrupted}
    /\ gd_dataset' = Append(gd_dataset, variant_record(gd_corrupted, gd_clean, gd_variant))
    /\ gd_emitted' = Append(gd_emitted, [i |-> gd_i, v |-> gd_v, attempts |-> gd_attempts,
                                          fields |-> variant_record_fields])
    /\ gd_v' = gd_v + 1
    /\ gd_pc' = "variant"
    /\ UNCHANGED <<gd_i, gd_clean, gd_sample_error_rate, gd_corrupted, gd_attempts,
                   gd_calls, gd_rng, gdParams, gdOthers>>

\* Line 742 fails: the result is dropped
DropVariant ==
    /\ gd_pc = "retry"
    /\ ~must_retry(gd_corrupted, gd_clean, gd_generated_variants, gd_attempts)
    /\ ~is_unique(gd_corrupted, gd_generated_variants)
    /\ gd_v' = gd_v + 1
    /\ gd_pc' = "variant"
    /\ UNCHANGED <<gd_dataset, gd_emitted, gd_i, gd_clean, gd_generated_variants,
                   gd_sample_error_rate, gd_corrupted, gd_attempts, gd_calls, gd_rng,
                   gdParams, gdOthers>>

\* The loop over the variants is over (line 728): next sentence draw
EndVariants ==
    /\ gd_pc = "variant"
    /\ gd_v >= gd_variants_per_sample
    /\ gd_i' = gd_i + 1
    /\ gd_pc' = "sample"
    /\ UNCHANGED <<gd_dataset, gd_emitted, gd_clean, gd_generated_variants, gd_v,
                   gd_sample_error_rate, gd_corrupted, gd_attempts, gd_calls, gd_rng,
                   gdParams, gdOthers>>

\* return dataset (line 755)
ReturnDataset ==
    /\ gd_pc = "sample"
    /\ gd_i >= gd_num_samples
    /\ gd_pc' = "done"
    /\ UNCHANGED <<gd_dataset, gd_emitted, gd_i, gd_clean, gd_generated_variants, gd_v,
                   gd_sample_error_rate, gd_corrupted, gd_attempts, gd_calls, gd_rng,
                   gdParams, gdOthers>>

NextGen ==
    \/ EmitClean \/ StartVariants \/ CorruptVariant \/ Retry
    \/ EmitVariant \/ DropVariant \/ EndVariants \/ ReturnDataset
SpecGen == InitGen /\ [][NextGen]_vars

(***************************************************************************)
(* SpecSentence: one call of convert_sentence_spelling(sentence, variant). *)
(***************************************************************************)
SentenceTokens == {"I", "realized", "Color,", "(gray)", "...", "tExt", "GREY!", "'colour'"}
SentenceInputs ==
    {join[ws] : ws \in UNION {[1..n -> SentenceTokens] : n \in 0..2}}
        \cup {"I realized my favorite color is gray.", "  I  realized ", " -- ",
              "Organize the CENTER (favorite) colors -- now!"}
SentenceTargets == {"US", "UK", "AU", "SG"}

InitSentence ==
    /\ cs_sentence \in SentenceInputs
    /\ cs_variant \in SentenceTargets
    /\ cs_result = ""
    /\ cs_pc = "call"
    /\ IdleGs /\ IdleSp /\ IdleFs /\ IdleCw /\ IdleCt /\ IdleGd

ConvertSentenceSpelling ==
    /\ cs_pc = "call"
    /\ cs_result' = convert_sentence_spelling(cs_sentence, cs_variant)
    /\ cs_pc' = "done"
    /\ UNCHANGED <<cs_sentence, cs_variant, gsVars, spVars, fsVars, cwVars, ctVars, gdVars>>

NextSentence == ConvertSentenceSpelling
SpecSentence == InitSentence /\ [][NextSentence]_vars

(***************************************************************************)
(* SpecTwice: get_spelling_for_variant or convert_sentence_spelling called *)
(* on an input, then called again on its own result, same target.          *)
(***************************************************************************)
GetSpellingAgain ==
    /\ gs_pc = "done"
    /\ gs_result' = get_spelling_for_variant(gs_result, gs_variant)
    /\ gs_pc' = "again"
    /\ UNCHANGED <<gs_word, gs_variant, spVars, fsVars, cwVars, ctVars, gdVars, csVars>>

ConvertSentenceAgain ==
    /\ cs_pc = "done"
    /\ cs_result' = convert_sentence_spelling(cs_result, cs_variant)
    /\ cs_pc' = "again"
    /\ UNCHANGED <<cs_sentence, cs_variant, gsVars, spVars, fsVars, cwVars, ctVars, gdVars>>

NextTwice ==
    \/ GetSpellingForVariant \/ GetSpellingAgain
    \/ ConvertSentenceSpelling \/ ConvertSentenceAgain
InitTwice == InitSpelling \/ InitSentence
SpecTwice == InitTwice /\ [][NextTwice]_vars

(***************************************************************************)
(* Properties                                                              *)
(***************************************************************************)
\* sub occurs in text
Contains(text, sub) ==
    \E a \in 0..(Len(text) - Len(sub)) : Slice(text, a, a + Len(sub)) = sub

\* C1: at error rate 1.0, every whitespace-delimited token of the sentence whose
\* punctuation-stripped lowercase form is in the variant's protected set is still
\* a token of the returned text, byte for byte, whatever the draws were.
C1_ProtectedTokensByteIdentical ==
    (ct_pc = "done" /\ ct_error_rate = 100) =>
        \A j \in 1..Len(ct_words) :
            is_protected_word(ct_words[j], ct_variant)
                => ct_words[j] \in Range(split(ct_result))

\* C2: every merged span that the protected patterns match in the text is found
\* unchanged, as a whole, in the text that corrupt_text_mobile returns, at every
\* error rate and whatever the draws were.
C2_ProtectedSpansPassThrough ==
    ct_pc = "done" =>
        \A spans \in {find_protected_spans(ct_text)} :
            \A n \in 1..Len(spans) :
                Contains(ct_result, Slice(ct_text, spans[n][1], spans[n][2]))

\* The pairs of the forward table
ForwardPairs == Range(items(SPELLING_US_TO_UK_LITERAL))

\* C3: for every (us, uk) pair of the forward table, converting uk to "US" gives
\* us and converting us to "UK" gives uk, compared case-insensitively; and the
\* derived reverse table holds the mirror (uk, us) of every forward pair.
C3_SpellingRoundTrip ==
    gs_pc = "done" =>
        \A w \in {lower[gs_word]}, r \in {lower[gs_result]} :
            /\ \A p \in ForwardPairs :
                  /\ (gs_variant = "US" /\ w = p[2]) => r = p[1]
                  /\ (gs_variant = "UK" /\ w = p[1]) => r = p[2]
            /\ \A p \in ForwardPairs :
                  p[2] \in DOMAIN SPELLING_UK_TO_US /\ SPELLING_UK_TO_US[p[2]] = p[1]

\* A UK spelling has been converted to its US form
C3_Witness ==
    /\ gs_pc = "done" /\ gs_variant = "US"
    /\ gs_word = "Colour" /\ gs_result = "Color"

\* The records of gd_dataset that sentence draw i emitted
RecordsOf(i) == {k \in 1..Len(gd_dataset) : gd_emitted[k].i = i}

C5_CleanRatioOneEmitsOnlyCleanRecords ==
    gd_clean_sample_ratio = 100 =>
        /\ \A k \in 1..Len(gd_dataset) :
              /\ gd_dataset[k].input = gd_dataset[k].output
              /\ gd_dataset[k].typo_type = "none"
        /\ \A i \in 0..(gd_i - 1) : Cardinality(RecordsOf(i)) = 1
        /\ Len(gd_dataset) = gd_i
        /\ gd_pc \in {"sample", "done"}

\* Two clean draws have been made in a run that asks for 3 variants per sample
C5_Witness ==
    /\ gd_pc = "done"
    /\ gd_clean_sample_ratio = 100 /\ gd_variants_per_sample = 3
    /\ gd_num_samples = 2 /\ Len(gd_dataset) = 2

\* C6: for a variant code absent from the registry, each lookup site returns
\* exactly what it returns for "US".
C6_UnknownVariantFallsBackToUS ==
    (sp_variant \notin DOMAIN VARIANT_CONFIG /\ sp_variant # None) =>
        /\ sp_pc = "get_sample_sentences" =>
              sp_sentences = get_sample_sentences("US", sp_include_regional, sp_include_short)
        /\ sp_pc = "get_protected_words" => sp_protected = get_protected_words("US")
        /\ sp_pc = "should_protect_word" => sp_result = should_protect_word(sp_word, "US")
        /\ sp_pc = "generate_dataset" => sp_spelling = variant_spelling("US")

\* C7: a raw token is protected if and only if its stripped lowercase form is an
\* abbreviation, a proper noun, a protected expression of the variant, all
\* digits once '.' and ',' are dropped, or of length 1, every lookup being made
\* on the form stripped by the one stripping rule.
C7_ProtectedIffAnyRuleOnStrippedForm ==
    sp_pc = "should_protect_word" =>
        \A w \in {strip(lower[sp_word], Chars(".,!?;:'\"()[]{}"))} :
            sp_result <=>
                \/ w \in PRESERVED_ABBREVIATIONS
                \/ w \in PROTECTED_PROPER_NOUNS
                \/ w \in get_protected_words(sp_variant)
                \/ isdigit(replace[replace[w, ".", ""], ",", ""])
                \/ Len(w) = 1

\* C8: the merged spans are ordered, each starts strictly after the end of the
\* one before, every matched character lies in exactly one of them, every
\* boundary of a span is a boundary of a raw match, and a span covers matched
\* characters only.
C8_MergedSpansDisjointAndCovering ==
    fs_pc = "done" =>
        /\ \A n \in 2..Len(fs_merged) : fs_merged[n][1] > fs_merged[n - 1][2]
        /\ \A m \in Range(fs_protected_spans) : \A c \in m[1]..(m[2] - 1) :
              Cardinality({n \in 1..Len(fs_merged) :
                              fs_merged[n][1] <= c /\ c < fs_merged[n][2]}) = 1
        /\ \A n \in 1..Len(fs_merged) :
              /\ \E m \in Range(fs_protected_spans) : m[1] = fs_merged[n][1]
              /\ \E m \in Range(fs_protected_spans) : m[2] = fs_merged[n][2]
              /\ \A c \in fs_merged[n][1]..(fs_merged[n][2] - 1) :
                    \E m \in Range(fs_protected_spans) : m[1] <= c /\ c < m[2]

\* Two adjacent matches, a hashtag and a mention, have been merged into one span
C8_Witness ==
    /\ fs_pc = "done" /\ fs_text = "#a@b"
    /\ fs_protected_spans = << <<0, 2>>, <<2, 4>> >>
    /\ fs_merged = << <<0, 4>> >>

\* C9: a word of length 0 or 1 comes back unchanged, whatever the draws.
C9_ShortWordUnchanged ==
    (cw_pc = "done" /\ Len(cw_word) <= 1) => cw_result = cw_word

\* A one-letter word has been through a call that drew the adjacent operator
C9_Witness ==
    /\ cw_pc = "done" /\ cw_word = "a"
    /\ cw_path.error_type = "adjacent" /\ cw_result = "a"

\* The table entry the conversion to a target uses for a lowercase word, if any
table_entry(word_lower, variant) ==
    IF variant = "US" /\ word_lower \in DOMAIN SPELLING_UK_TO_US
    THEN SPELLING_UK_TO_US[word_lower]
    ELSE IF variant \in {"UK", "AU"} /\ word_lower \in DOMAIN SPELLING_US_TO_UK
    THEN SPELLING_US_TO_UK[word_lower]
    ELSE word_lower

\* C10: the result is the table entry of the lowercase word (the lowercase word
\* itself when it has none), upper-cased if the word is fully upper-case,
\* otherwise with only its first character upper-cased if the word starts with
\* an upper-case character, otherwise in lower case.
C10_CapitalizationRestored ==
    gs_pc = "done" =>
        \A e \in {table_entry(lower[gs_word], gs_variant)} :
            IF isupper(gs_word) THEN gs_result = upper[e]
            ELSE IF gs_word # "" /\ isupper_c(Head(gs_word))
            THEN gs_result = upper_c(Head(e)) \o lower[Tail(e)]
            ELSE gs_result = lower[e]

\* A fully upper-case UK spelling has been converted to upper-case US spelling
C10_Witness ==
    /\ gs_pc = "done" /\ gs_variant = "US"
    /\ gs_word = "COLOUR" /\ gs_result = "COLOR"

\* C11 as stated: convert_sentence_spelling("I realized my favorite color is
\* gray.", "UK") returns exactly "i realised my favourite colour is grey.".
C11_DemoSentenceLowerCaseI ==
    (cs_pc = "done" /\ cs_sentence = "I realized my favorite color is gray."
        /\ cs_variant = "UK")
        => cs_result = "i realised my favourite colour is grey."

\* C11, amended: convert_sentence_spelling("I realized my favorite color is
\* gray.", "UK") returns exactly "I realised my favourite colour is grey.": the
\* upper-case word "I" comes back upper-case.
C11_DemoSentenceKeepsCapitalI ==
    (cs_pc = "done" /\ cs_sentence = "I realized my favorite color is gray."
        /\ cs_variant = "UK")
        => cs_result = "I realised my favourite colour is grey."

\* The demonstration sentence has been converted to UK spelling
C11_Witness ==
    /\ cs_pc = "done" /\ cs_variant = "UK"
    /\ cs_sentence = "I realized my favorite color is gray."
    /\ cs_result # cs_sentence

\* C12 as stated: for every target other than "US", "UK" and "AU", the word is
\* returned exactly as given, mixed-case words included.
C12_OtherTargetReturnsWordAsGiven ==
    (gs_pc = "done" /\ gs_variant \notin {"US", "UK", "AU"}) => gs_result = gs_word

\* C12, amended: for every target other than "US", "UK" and "AU" no table is
\* consulted, and the word is returned lower-cased and then recapitalized:
\* upper-cased if it is fully upper-case, with its first character upper-cased
\* if it starts with an upper-case character, in lower case otherwise.
C12_OtherTargetLowersAndRecapitalizes ==
    (gs_pc = "done" /\ gs_variant \notin {"US", "UK", "AU"}) =>
        \A w \in {lower[gs_word]} :
            IF isupper(gs_word) THEN gs_result = upper[w]
            ELSE IF gs_word # "" /\ isupper_c(Head(gs_word))
            THEN gs_result = upper_c(Head(w)) \o Tail(w)
            ELSE gs_result = w

\* A mixed-case word has been converted to a target without a table
C12_Witness ==
    /\ gs_pc = "done" /\ gs_variant = "SG"
    /\ gs_word = "iPhone" /\ gs_result = "iphone"

\* C13: no word is a key of both the forward table and the derived reverse
\* table.
C13_NoWordKeyOfBothTables ==
    gs_pc = "done" =>
        \A w \in {lower[gs_word]} :
            ~(w \in DOMAIN SPELLING_US_TO_UK /\ w \in DOMAIN SPELLING_UK_TO_US)

\* C14: within one sentence draw only the results unique in that draw are
\* kept: the records of a draw have pairwise distinct inputs, and while a draw
\* is at its variants its records are exactly the strings of generated_variants,
\* one record for each, for every variants_per_sample and every retry outcome.
C14_OneRecordPerUniqueVariant ==
    /\ \A i \in 0..(gd_num_samples - 1) : \A k, l \in RecordsOf(i) :
          k # l => gd_dataset[k].input # gd_dataset[l].input
    /\ gd_pc \in {"variant", "retry"} =>
          /\ {gd_dataset[k].input : k \in RecordsOf(gd_i)} = gd_generated_variants
          /\ Cardinality(RecordsOf(gd_i)) = Cardinality(gd_generated_variants)

\* A draw has kept two variants and lost its third one, a duplicate, after 5 retries
C14_Witness ==
    /\ gd_pc = "done"
    /\ \E i \in 0..(gd_num_samples - 1) :
          /\ Cardinality(RecordsOf(i)) = 2
          /\ \E n \in 1..Len(gd_calls) :
                gd_calls[n].i = i /\ gd_calls[n].v = 2 /\ gd_calls[n].attempts = 5
          /\ \A k \in RecordsOf(i) : gd_emitted[k].v # 2

\* The retry loop has run out of attempts on an unchanged or repeated result
Exhausted ==
    /\ gd_pc = "retry" /\ gd_attempts = 5
    /\ (gd_corrupted = gd_clean \/ gd_corrupted \in gd_generated_variants)

\* C15 as stated: when the 5 retries are exhausted and the result is still
\* unchanged or non-unique, the result is emitted as a record.
C15_ExhaustedResultEmitted ==
    [][Exhausted =>
         /\ Len(gd_dataset') = Len(gd_dataset) + 1
         /\ gd_dataset'[Len(gd_dataset')].input = gd_corrupted]_vars

\* C15, amended: when the 5 retries are exhausted, a result equal to an already
\* generated variant of the sentence is discarded and the loop goes on to the
\* next iteration; a result that is unchanged and not yet generated for the
\* sentence is emitted as a record with input = output and typo_type "none".
C15_ExhaustedResultEmittedUnlessRepeated ==
    [][Exhausted =>
         IF gd_corrupted \in gd_generated_variants
         THEN gd_dataset' = gd_dataset /\ gd_v' = gd_v + 1 /\ gd_pc' = "variant"
         ELSE gd_dataset' = Append(gd_dataset,
                  [input |-> gd_clean, output |-> gd_clean, variant |-> gd_variant,
                   typo_type |-> "none"])]_vars

\* A repeated result has been discarded after 5 retries
C15_Witness ==
    /\ gd_pc = "variant" /\ gd_attempts = 5 /\ gd_v >= 1
    /\ gd_corrupted \in gd_generated_variants
    /\ \A k \in RecordsOf(gd_i) : gd_emitted[k].v # gd_v - 1

\* The calls of the engine made by variant iteration v of sentence draw i
CallsOf(i, v) == {n \in 1..Len(gd_calls) : gd_calls[n].i = i /\ gd_calls[n].v = v}

EngineCallsBounded ==
    /\ \A n \in 1..Len(gd_calls) :
          /\ gd_calls[n].i \in 0..(gd_num_samples - 1)
          /\ gd_calls[n].v \in 0..(gd_variants_per_sample - 1)
          /\ Cardinality(CallsOf(gd_calls[n].i, gd_calls[n].v)) <= 6
    /\ Len(gd_calls) <= gd_num_samples * gd_variants_per_sample * 6

\* The steps generate_dataset can still take, at most: 7 for a variant iteration
\* (its first call, 5 retries, the test of line 742), 2 more for a sentence
\* draw, 1 for the return
StepsLeft ==
    LET perDraw == 7 * gd_variants_per_sample + 2
        drawsLeft == gd_num_samples - gd_i
    IN CASE gd_pc = "done" -> 0
         [] gd_pc = "sample" -> drawsLeft * perDraw + 1
         [] gd_pc = "variant" ->
                (drawsLeft - 1) * perDraw + 2 + 7 * (gd_variants_per_sample - gd_v)
         [] gd_pc = "retry" ->
                (drawsLeft - 1) * perDraw + 2 + 7 * (gd_variants_per_sample - gd_v - 1)
                    + (5 - gd_attempts) + 1

\* C16: generate_dataset terminates (every step lowers a bound on the steps
\* left, which never goes below 0, and only the return ends the run), each
\* variant iteration calls the engine at most 6 times whatever it returns, and
\* the calls number at most num_samples * variants_per_sample * 6.
C16_GenerateTerminates ==
    /\ [](EngineCallsBounded /\ StepsLeft >= 0 /\ (StepsLeft = 0 <=> gd_pc = "done"))
    /\ [][StepsLeft' < StepsLeft]_vars

\* A run has ended in which an iteration made its 6 calls
C16_Witness ==
    /\ gd_pc = "done"
    /\ \E n \in 1..Len(gd_calls) :
          Cardinality(CallsOf(gd_calls[n].i, gd_calls[n].v)) = 6

\* Record k of the dataset is well-formed
WellFormed(k) ==
    /\ DOMAIN gd_dataset[k] = {"input", "output", "variant", "typo_type"}
    /\ gd_emitted[k].fields = <<"input", "output", "variant", "typo_type">>
    /\ gd_dataset[k].typo_type \in {"none", "corrupted"}
    /\ gd_dataset[k].output \in Range(gd_all_sentences)

\* C17: every record has exactly the fields input, output, variant, typo_type,
\* in that order, a typo_type of "none" or "corrupted" and, as output, the clean
\* sentence drawn from the pool; a record is never changed once appended.
C17_RecordsWellFormedAndFrozen ==
    /\ [](Len(gd_emitted) = Len(gd_dataset) /\ \A k \in 1..Len(gd_dataset) : WellFormed(k))
    /\ [][/\ Len(gd_dataset') >= Len(gd_dataset)
          /\ \A k \in 1..Len(gd_dataset) : gd_dataset'[k] = gd_dataset[k]
          /\ Len(gd_dataset') > Len(gd_dataset) =>
                /\ Len(gd_dataset') = Len(gd_dataset) + 1
                /\ gd_dataset'[Len(gd_dataset')].output = gd_clean'
                /\ gd_clean' \in Range(gd_all_sentences)]_vars

\* A returned dataset holds corrupted records of two sentence draws
C17_Witness ==
    /\ gd_pc = "done"
    /\ \E k, l \in 1..Len(gd_dataset) :
          /\ gd_emitted[k].i = 0 /\ gd_emitted[l].i = 1
          /\ gd_dataset[k].typo_type = "corrupted"
          /\ gd_dataset[l].typo_type = "corrupted"

\* The sentence the first draw picks from a pool in the given order
first_output(order, seed) ==
    order[choice_from_u(random_at(seed, 0), Len(order)) + 1]

\* C18: a run emits the records that any run with the same parameters and the
\* same seed emits, whatever order list(set(...)) gave the pool in that run
\* (stated on the first record of runs that emit clean samples only).
C18_SameSeedSameRecords ==
    (gd_clean_sample_ratio = 100 /\ Len(gd_dataset) >= 1) =>
        \A r \in GenRotations :
            gd_dataset[1].output = first_output(rotate(AllSentences[gd_variant], r), gd_seed)

\* The length of the maximal run of non-alphanumeric characters that starts a
\* token, and of the one that ends what is left of it
leading(token) ==
    CHOOSE n \in 0..Len(token) :
        /\ \A j \in 1..n : ~isalnum_c(SubSeq(token, j, j))
        /\ (n = Len(token) \/ isalnum_c(SubSeq(token, n + 1, n + 1)))
trailing(token) ==
    CHOOSE n \in 0..(Len(token) - leading(token)) :
        /\ \A j \in (Len(token) - n + 1)..Len(token) : ~isalnum_c(SubSeq(token, j, j))
        /\ (n = Len(token) - leading(token)
               \/ isalnum_c(SubSeq(token, Len(token) - n, Len(token) - n)))

\* C19: the result has as many tokens as the sentence, in the same order and
\* joined by single spaces; each is the token with its maximal leading and
\* trailing runs of non-alphanumerics unchanged and the core between them
\* converted; a token with an empty core is unchanged.
C19_SentenceConvertedTokenByToken ==
    cs_pc = "done" =>
        \A words \in {split(cs_sentence)}, out \in {split(cs_result)} :
            /\ Len(out) = Len(words)
            /\ cs_result = join[out]
            /\ \A n \in 1..Len(words) :
                  \A a \in {leading(words[n])}, b \in {trailing(words[n])} :
                      \A core \in {SubSeq(words[n], a + 1, Len(words[n]) - b)} :
                          out[n] = SubSeq(words[n], 1, a)
                                   \o (IF core = "" THEN ""
                                       ELSE get_spelling_for_variant(core, cs_variant))
                                   \o SubSeq(words[n], Len(words[n]) - b + 1, Len(words[n]))

\* A sentence with a token in brackets and a token without a core has been
\* converted
C19_Witness ==
    /\ cs_pc = "done" /\ cs_variant = "UK"
    /\ cs_sentence = "Organize the CENTER (favorite) colors -- now!"
    /\ cs_result = "Organise the CENTRE (favourite) colours -- now!"

\* C20: the substitution operator puts at the drawn position a letter a-z in the
\* case of the character it replaces, and leaves the other positions unchanged.
C20_SubstitutionKeepsCase ==
    (cw_pc = "done" /\ Len(cw_word) > 1 /\ ~cw_path.thumb
        /\ cw_path.error_type = "substitution") =>
        /\ Len(cw_result) = Len(cw_word)
        /\ \A p \in 0..(Len(cw_word) - 1) :
              p # cw_path.pos => CharAt(cw_result, p) = CharAt(cw_word, p)
        /\ lower_c(CharAt(cw_result, cw_path.pos)) \in Chars(ASCII_LOWERCASE)
        /\ isupper_c(CharAt(cw_word, cw_path.pos))
              => isupper_c(CharAt(cw_result, cw_path.pos))

\* C21: the adjacent operator puts at the drawn position, when the character
\* there is one of the 26 letters, a key of that letter's adjacency list in the
\* case of the original, leaves a character without an adjacency list (a digit,
\* a symbol) as it is, and leaves the other positions unchanged.
C21_AdjacentKeepsCaseAndRest ==
    (cw_pc = "done" /\ Len(cw_word) > 1 /\ ~cw_path.thumb
        /\ cw_path.error_type = "adjacent") =>
        LET old == CharAt(cw_word, cw_path.pos)
            new == CharAt(cw_result, cw_path.pos)
        IN /\ Len(cw_result) = Len(cw_word)
           /\ \A p \in 0..(Len(cw_word) - 1) :
                 p # cw_path.pos => CharAt(cw_result, p) = CharAt(cw_word, p)
           /\ old \in LowerSet =>
                 new \in Range(MOBILE_ADJACENT_KEYS[old])
           /\ old \in UpperSet =>
                 /\ new \in UpperSet
                 /\ lower_c(new) \in Range(MOBILE_ADJACENT_KEYS[lower_c(old)])
           /\ old \notin (LowerSet \cup UpperSet) => new = old

\* An upper-case letter has been replaced by an upper-case neighbour, and a
\* digit has been left alone
C21_Witness ==
    /\ cw_pc = "done" /\ ~cw_path.thumb /\ cw_path.error_type = "adjacent"
    /\ \/ cw_word = "Hi" /\ cw_path.pos = 0 /\ cw_result = "Ji"
       \/ cw_word = "x1" /\ cw_path.pos = 1 /\ cw_result = "x1"

\* C22: before every word of index i >= 1 the loop can draw a spacebar miss,
\* whether or not that word is protected, and before the word of index 0 it
\* never does.
C22_SpacebarDrawAtEveryBoundary ==
    (ct_pc = "loop" /\ ct_i < Len(ct_words)) =>
        ((\E d \in token_draws(ct_i, ct_words[ct_i + 1], ct_error_rate, ct_variant) :
             d.space)
         <=> ct_i >= 1)

\* C23: a call on a word of two characters or more that takes the thumb-typo
\* path is a call on a word whose lowercase form is a key of the table, and its
\* result is, lower-cased, one of the typos listed for that key, starts with an
\* upper-case character if the word does, and is fully upper-cased if the word
\* is fully upper-case; it is the listed typo itself otherwise.
C23_ThumbTypoListedAndCaseAdapted ==
    (cw_pc = "done" /\ Len(cw_word) >= 2 /\ cw_path.thumb) =>
        /\ lower[cw_word] \in DOMAIN THUMB_TYPING_ERRORS
        /\ \A typos \in {THUMB_TYPING_ERRORS[lower[cw_word]]} :
              /\ lower[cw_result] \in Range(typos)
              /\ isupper_c(CharAt(cw_word, 0)) => isupper_c(CharAt(cw_result, 0))
              /\ isupper(cw_word) => cw_result = upper[cw_result]
              /\ ~isupper_c(CharAt(cw_word, 0)) => cw_result \in Range(typos)

\* A fully upper-case word has been replaced by a listed typo in upper case
C23_Witness ==
    /\ cw_pc = "done" /\ cw_path.thumb
    /\ cw_word = "THE" /\ cw_result = "TGE"

\* C24: omission returns the word unchanged when the word has at most one
\* character or the position is past its end, insertion when the position is
\* past its end, transposition when the position is the last one or past the
\* end, and corrupt_word_mobile when the operator it draws is space_error; every
\* such call returns a value.
C24_DegenerateInputsUnchanged ==
    /\ cw_pc = "applied" =>
          /\ (cw_path.error_type = "omission"
                /\ (Len(cw_word) <= 1 \/ cw_path.pos >= Len(cw_word)))
                => cw_result = cw_word
          /\ (cw_path.error_type = "insertion" /\ cw_path.pos >= Len(cw_word))
                => cw_result = cw_word
          /\ (cw_path.error_type = "transposition" /\ cw_path.pos >= Len(cw_word) - 1)
                => cw_result = cw_word
    /\ (cw_pc = "done" /\ ~cw_path.thumb /\ cw_path.error_type = "space_error")
          => cw_result = cw_word

\* The omission operator has been applied past the end of a two-letter word
C24_Witness ==
    /\ cw_pc = "applied" /\ cw_word = "ok"
    /\ cw_path.error_type = "omission" /\ cw_path.pos = 4 /\ cw_result = "ok"

\* C30: a call on a word of two characters or more that does not take the
\* thumb-typo path returns a word one character shorter for omission, one
\* character longer for insertion and of the same length for the five other
\* operators; so the length changes by at most 1 and the result is not empty.
C30_OperatorLengths ==
    (cw_pc = "done" /\ Len(cw_word) >= 2 /\ ~cw_path.thumb) =>
        /\ cw_path.error_type = "omission" => Len(cw_result) = Len(cw_word) - 1
        /\ cw_path.error_type = "insertion" => Len(cw_result) = Len(cw_word) + 1
        /\ cw_path.error_type \in {"adjacent", "transposition", "substitution",
                                   "case_error", "space_error"}
              => Len(cw_result) = Len(cw_word)
        /\ Len(cw_result) \in (Len(cw_word) - 1)..(Len(cw_word) + 1)
        /\ cw_result # ""

\* The omission operator has left one letter of a two-letter word, and the
\* insertion operator has made it three letters long
C30_Witness ==
    /\ cw_pc = "done" /\ cw_word = "ok" /\ ~cw_path.thumb
    /\ \/ cw_path.error_type = "omission" /\ cw_result = "k"
       \/ cw_path.error_type = "insertion" /\ cw_result = "ook"

\* C25: in every record of the dataset, typo_type is "none" exactly when input
\* and output are the same string.
C25_NoneIffInputIsOutput ==
    \A k \in 1..Len(gd_dataset) :
        gd_dataset[k].typo_type = "none" <=> gd_dataset[k].input = gd_dataset[k].output

\* A dataset holds a clean sample, a variant the engine left unchanged through
\* all its retries, or both, next to a corrupted variant
C25_Witness ==
    /\ gd_pc = "done"
    /\ \E k, l \in 1..Len(gd_dataset) :
          /\ gd_dataset[k].typo_type = "none" /\ gd_dataset[k].input = gd_dataset[k].output
          /\ gd_dataset[l].typo_type = "corrupted"
          /\ gd_dataset[l].input # gd_dataset[l].output

\* Sentence draw i emitted the record of a clean sample
CleanDraw(i) == \E k \in RecordsOf(i) : gd_emitted[k].v = -1

\* A sentence draw that is a clean draw adds exactly one record and is over
CleanDrawEmitsOne ==
    (gd_pc = "sample" /\ gd_i < gd_num_samples /\ drawn_clean) =>
        /\ gd_i' = gd_i + 1
        /\ Len(gd_dataset') = Len(gd_dataset) + 1
        /\ \A k \in 1..Len(gd_dataset') :
              gd_emitted'[k].i = gd_i <=> k = Len(gd_dataset')
        /\ gd_emitted'[Len(gd_dataset')].v = -1

\* The records of the sentence draws that are over
DrawCounts ==
    \A i \in 0..(gd_i - 1) :
        \A n \in {Cardinality(RecordsOf(i))} :
            /\ CleanDraw(i) => n = 1
            /\ (~CleanDraw(i) /\ gd_variants_per_sample >= 1) =>
                  /\ n \in 1..gd_variants_per_sample
                  /\ \E k \in RecordsOf(i) : gd_emitted[k].v = 0
            /\ (~CleanDraw(i) /\ gd_variants_per_sample = 0) => n = 0

\* C26: a clean draw emits exactly one record; a corrupted draw emits between 1
\* and variants_per_sample records, one of them in its first variant iteration,
\* when variants_per_sample >= 1, and none when it is 0; so with
\* variants_per_sample >= 1 the dataset returned has between num_samples and
\* num_samples * variants_per_sample records.
C26_RecordsPerDraw ==
    /\ [][CleanDrawEmitsOne]_vars
    /\ [](/\ DrawCounts
          /\ (gd_pc = "done" /\ gd_variants_per_sample >= 1) =>
                /\ Len(gd_dataset) >= gd_num_samples
                /\ Len(gd_dataset) <= gd_num_samples * gd_variants_per_sample)

\* A run of two draws has returned a clean sample for one draw and, for the
\* other, variants of the sentence, fewer than the three that were asked for
C26_Witness ==
    /\ gd_pc = "done" /\ gd_variants_per_sample = 3 /\ gd_num_samples = 2
    /\ \E i, j \in 0..1 :
          /\ CleanDraw(i)
          /\ ~CleanDraw(j) /\ Cardinality(RecordsOf(j)) \in 1..2

\* A sentence the engine cannot alter: each of its tokens is protected, its
\* first character is not upper-case and it has no comma, period or apostrophe
Unalterable(sentence, variant) ==
    /\ sentence # ""
    /\ \A words \in {split(sentence)} : \A n \in 1..Len(words) :
          should_protect_word(peel(words[n]).core, variant)
    /\ ~isupper_c(CharAt(sentence, 0))
    /\ \A p \in 0..(Len(sentence) - 1) : CharAt(sentence, p) \notin {",", ".", "'"}

\* A variant iteration on such a sentence is left after the fifth retry only
AllRetriesRun ==
    (gd_pc = "retry" /\ gd_pc' = "variant" /\ Unalterable(gd_clean, gd_variant))
        => gd_attempts = 5

\* C27: on a corrupted draw of a sentence the engine cannot alter, every call of
\* the engine returns the sentence, every variant iteration runs its 5 retries,
\* and when the iterations are over (variants_per_sample >= 1) the draw has
\* emitted exactly one record, with input = output and typo_type "none".
C27_UnalterableSentenceOneRecord ==
    /\ [][AllRetriesRun]_vars
    /\ [](/\ (gd_pc = "retry" /\ Unalterable(gd_clean, gd_variant))
                => gd_corrupted = gd_clean
          /\ (gd_pc = "variant" /\ gd_v >= gd_variants_per_sample
                /\ gd_variants_per_sample >= 1 /\ Unalterable(gd_clean, gd_variant)) =>
                /\ Cardinality(RecordsOf(gd_i)) = 1
                /\ \A k \in RecordsOf(gd_i) :
                      /\ gd_dataset[k].input = gd_clean
                      /\ gd_dataset[k].output = gd_clean
                      /\ gd_dataset[k].typo_type = "none"
                /\ \A v \in 0..(gd_variants_per_sample - 1) :
                      Cardinality(CallsOf(gd_i, v)) = 6)

\* The three variant iterations of a draw of "lol" are over: 18 calls of the
\* engine and one record
C27_Witness ==
    /\ gd_pc = "variant" /\ gd_v = 3 /\ gd_variants_per_sample = 3
    /\ gd_clean = "lol"
    /\ Cardinality({n \in 1..Len(gd_calls) : gd_calls[n].i = gd_i}) = 18
    /\ Cardinality(RecordsOf(gd_i)) = 1

\* The rates of the buckets, and other base rates a run could have been given
BucketRates == {5, 10, 15, 20, 25, 30, 35}
OtherErrorRates == {5, 20, 50}

\* With the variable rate, the rate a variant iteration draws is the rate it
\* would draw, from the same random number, in a run with another base rate
RateIgnoresBase ==
    (gd_variable_error_rate /\ gd_pc = "variant" /\ gd_v < gd_variants_per_sample) =>
        \A b \in OtherErrorRates :
            gd_sample_error_rate' =
                choices_from_u(random_at(gd_seed, gd_rng), error_rates(b, TRUE))

\* C29: with the variable rate, the base rate is read by no step (the rate of
\* each variant iteration, the only value a run computes from it, is the one a
\* run with another base rate draws, so the two runs emit the same records),
\* the rate of the first call of the engine in an iteration is a bucket rate,
\* and the rate of each retry is the rate of that first call + 0.10.
C29_VariableRateIgnoresBase ==
    /\ [][RateIgnoresBase]_vars
    /\ [](gd_variable_error_rate =>
            \A n \in 1..Len(gd_calls) :
                /\ gd_calls[n].attempts = 0 => gd_calls[n].error_rate \in BucketRates
                /\ \A m \in CallsOf(gd_calls[n].i, gd_calls[n].v) :
                      (gd_calls[n].attempts = 0 /\ gd_calls[m].attempts > 0)
                          => gd_calls[m].error_rate = gd_calls[n].error_rate + 10)

\* A run with the variable rate has drawn the bucket 0.20 and retried twice at 0.30
C29_Witness ==
    /\ gd_variable_error_rate /\ gd_error_rate \notin BucketRates
    /\ \E n, m \in 1..Len(gd_calls) :
          /\ gd_calls[n].attempts = 0 /\ gd_calls[n].error_rate = 20
          /\ m \in CallsOf(gd_calls[n].i, gd_calls[n].v)
          /\ gd_calls[m].attempts = 2 /\ gd_calls[m].error_rate = 30

\* The second call, on the result of the first, returns that result
SecondCallChangesNothing ==
    /\ gs_pc = "done" => gs_result' = gs_result
    /\ cs_pc = "done" => cs_result' = cs_result

\* C28: converting to a target what a conversion to that target returned gives
\* it back unchanged, for a word and for a sentence.
C28_ConversionIdempotent == [][SecondCallChangesNothing]_vars

\* A word and a sentence that the first call changed have been through the
\* second call
C28_Witness ==
    \/ /\ gs_pc = "again" /\ gs_word = "Color" /\ gs_variant = "UK"
       /\ gs_result = "Colour"
    \/ /\ cs_pc = "again" /\ cs_variant = "UK"
       /\ cs_sentence = "I realized my favorite color is gray."
       /\ cs_result # cs_sentence
====
